---- MODULE Spec2Model ----
(***************************************************************************)
(* Coverage-feedback engine of the fuzzer: the feedback type and its       *)
(* ordering (coverage/mod.rs), the block and edge metrics                  *)
(* (coverage/block.rs, coverage/edge.rs) and the per-function path metric  *)
(* with its stack-based path reducer (coverage/per_function.rs).           *)
(*                                                                         *)
(* reduce_fun1 is recursive in the source; here every invocation is a     *)
(* frame on `stack` and every iteration of its while loop is one step, so  *)
(* that the locals of a caller are visible while its callee runs.          *)
(***************************************************************************)
EXTENDS Integers, Sequences, FiniteSets, TLC

(***************************************************************************)
(* Program constants                                                       *)
(***************************************************************************)
\* reduce_fun: self.reduce_fun1(path, 2), the loop unroll bound
K == 2

\* usize::MAX, the start value of the running minimum in the block metric.
\* TLC integers are 32 bits wide, so the largest of them stands for it; no
\* hit count of the model comes near it.
UsizeMax == 2147483647

(***************************************************************************)
(* Bounds                                                                  *)
(***************************************************************************)
\* block ids 1..NumBlocks occur in the traces of the reducer specification
NumBlocks == 4
\* longest unstructured trace of the reducer specification
MaxLen == 5
\* most iterations n in the traces e b^n x
MaxIter == 7
\* most iterations of the outer loop in the traces e (b c*)* x
MaxOuter == 3
\* most iterations of the inner loop in the traces e (b c*)* x
MaxInner == 4
\* block ids, trace length and number of observations of the metric
\* specification (several observations by one metric)
NumObsBlocks == 3
MaxObsLen == 3
MaxObs == 2
\* feedback values compared by the ordering specification
MaxUniq == 2
MaxOldDepth == 2

\* the aggregator observes up to AggObs traces of up to AggLen blocks among
\* 1..AggBlocks
AggBlocks == 2

AggLen == 2

AggObs == 2

\* the fuzzer reads NumSeeds seed files, runs the target up to MaxExecs times
\* and rescans the queue directory up to MaxLevel times
NumSeeds == 2

MaxExecs == 3

MaxLevel == 1

\* the shared region holds up to MaxShmWords 32-bit words and is used by up
\* to MaxShmRuns executions
MaxShmWords == 3

MaxShmRuns == 2

\* file name prefixes of up to MaxPrefixLen characters, uniqueness values
\* 0..MaxNameUniq and a few of several digits
MaxPrefixLen == 2

MaxNameUniq == 2

\* inputs of up to MaxInputLen bytes are mutated: above both caps, 8 for a
\* deletion and 16 for an insertion
MaxInputLen == 17

\* NumInstances instances of the parallel fuzzer, each of which makes up to
\* MaxParRuns executions whose target writes up to MaxParWords block ids
NumInstances == 2

MaxParRuns == 1

MaxParWords == 1

(***************************************************************************)
(* Small helpers                                                           *)
(***************************************************************************)
Min(a, b) == IF a <= b THEN a ELSE b

Last(s) == s[Len(s)]

\* all sequences over S of length at most n
SeqsUpTo(S, n) == UNION {[1..m -> S] : m \in 0..n}

\* the sequence of n copies of x
Rep(x, n) == [i \in 1..n |-> x]

RECURSIVE Flatten(_)
Flatten(ss) == IF ss = <<>> THEN <<>> ELSE Head(ss) \o Flatten(Tail(ss))

(***************************************************************************)
(* CoverageFeedback (coverage/mod.rs)                                      *)
(*                                                                         *)
(* Old(Box<CoverageFeedback>) only wraps, so a value is one of the four   *)
(* base variants under `old` layers of Old: old = 0 is the bare variant,   *)
(* old = 2 is Old(Old(variant)).                                           *)
(***************************************************************************)
BaseTags == {"NewBlock", "NewEdge", "NewPath", "NoCoverage"}

NewBlock(u) == [old |-> 0, tag |-> "NewBlock", uniqueness |-> u]

NewEdge(u) == [old |-> 0, tag |-> "NewEdge", uniqueness |-> u]

NewPath(u) == [old |-> 0, tag |-> "NewPath", uniqueness |-> u]

NoCoverage(u) == [old |-> 0, tag |-> "NoCoverage", uniqueness |-> u]

Old(f) == [f EXCEPT !.old = @ + 1]

\* the feedback inside an Old
Inner(f) == [f EXCEPT !.old = @ - 1]

\* the variant of a value: Old when wrapped, else its base variant
Variant(f) == IF f.old > 0 THEN "Old" ELSE f.tag

CoverageFeedback(maxU, maxOld) ==
    [old : 0..maxOld, tag : BaseTags, uniqueness : 0..maxU]

\* CoverageFeedback::priority
priority(f) ==
    CASE Variant(f) = "NewBlock" -> 5
      [] Variant(f) = "NewEdge" -> 4
      [] Variant(f) = "NewPath" -> 3
      [] Variant(f) = "NoCoverage" -> 2
      [] Variant(f) = "Old" -> 1

\* CoverageFeedback::new_cov
new_cov(f) == Variant(f) \in {"NewBlock", "NewEdge", "NewPath"}

\* usize::cmp with the operands exchanged
usize_cmp_Swapped(x, y) ==
    IF y < x THEN "Less" ELSE IF x = y THEN "Equal" ELSE "Greater"

\* usize::cmp
usize_cmp(x, y) == IF x < y THEN "Less" ELSE IF x = y THEN "Equal" ELSE "Greater"

\* impl PartialOrd for CoverageFeedback, the arms in source order
RECURSIVE partial_cmp(_, _)
partial_cmp(self, other) ==
    CASE Variant(self) = "NewBlock" /\ Variant(other) = "NewBlock" ->
            usize_cmp(other.uniqueness, self.uniqueness)
      [] Variant(self) = "NewEdge" /\ Variant(other) = "NewEdge" ->
            usize_cmp(other.uniqueness, self.uniqueness)
      [] Variant(self) = "NewPath" /\ Variant(other) = "NewPath" ->
            usize_cmp(other.uniqueness, self.uniqueness)
      [] Variant(self) = "NoCoverage" /\ Variant(other) = "NoCoverage" ->
            usize_cmp(other.uniqueness, self.uniqueness)
      [] Variant(self) = "NoCoverage" /\ Variant(other) # "NoCoverage" ->
            "Less"
      [] Variant(self) = "Old" /\ Variant(other) = "Old" ->
            partial_cmp(Inner(self), Inner(other))
      [] OTHER -> usize_cmp(priority(self), priority(other))

\* impl Ord for CoverageFeedback
cmp(self, other) == partial_cmp(self, other)

\* CoverageFeedback::get_edge_uniqueness (defined on NewEdge and NoCoverage)
get_edge_uniqueness(f) == f.uniqueness

(***************************************************************************)
(* Block metric (coverage/block.rs)                                        *)
(*                                                                         *)
(* `blocks` is a function whose domain is the set of keys of the hash map. *)
(***************************************************************************)
\* BlockVisit with the running minimum taken over the counts before the
\* increment
BlockVisit_PreIncrement(st, block) ==
    LET count == IF block \in DOMAIN st.blocks THEN st.blocks[block] + 1 ELSE 1
    IN  [blocks |-> [b \in DOMAIN st.blocks \cup {block} |->
                        IF b = block THEN count ELSE st.blocks[b]],
         new_coverage |-> st.new_coverage \/ block \notin DOMAIN st.blocks,
         uniq |-> Min(st.uniq, count - 1)]

\* BlockVisit that leaves the count of a known block as it is
BlockVisit_NoRecount(st, block) ==
    LET count == IF block \in DOMAIN st.blocks THEN st.blocks[block] ELSE 1
    IN  [blocks |-> [b \in DOMAIN st.blocks \cup {block} |->
                        IF b = block THEN count ELSE st.blocks[b]],
         new_coverage |-> st.new_coverage \/ block \notin DOMAIN st.blocks,
         uniq |-> Min(st.uniq, count)]

\* BlockVisit whose uniqueness is the count of the block visited last
BlockVisit_LastCount(st, block) ==
    LET count == IF block \in DOMAIN st.blocks THEN st.blocks[block] + 1 ELSE 1
    IN  [blocks |-> [b \in DOMAIN st.blocks \cup {block} |->
                        IF b = block THEN count ELSE st.blocks[b]],
         new_coverage |-> st.new_coverage \/ block \notin DOMAIN st.blocks,
         uniq |-> count]

\* one iteration of `for &block in path`; st = [blocks, new_coverage, uniq]
BlockVisit(st, block) ==
    LET count == IF block \in DOMAIN st.blocks THEN st.blocks[block] + 1 ELSE 1
    IN  [blocks |-> [b \in DOMAIN st.blocks \cup {block} |->
                        IF b = block THEN count ELSE st.blocks[b]],
         new_coverage |-> st.new_coverage \/ block \notin DOMAIN st.blocks,
         uniq |-> Min(st.uniq, count)]

RECURSIVE BlockFold(_, _)
BlockFold(st, path) ==
    IF path = <<>> THEN st ELSE BlockFold(BlockVisit(st, Head(path)), Tail(path))

\* update_from_path whose uniqueness is the least count, after the whole
\* loop, of the blocks of the path
BlockCoverage_update_from_path_FinalMin(blks, path) ==
    LET st == BlockFold([blocks |-> blks, new_coverage |-> FALSE,
                         uniq |-> UsizeMax], path)
        counts == {st.blocks[path[i]] : i \in 1..Len(path)}
        uniq == IF counts = {} THEN UsizeMax
                ELSE CHOOSE m \in counts : \A c \in counts : m <= c
    IN  [blocks |-> st.blocks,
         feedback |-> IF st.new_coverage THEN NewBlock(uniq)
                      ELSE NoCoverage(uniq)]

\* BlockCoverage::update_from_path: the new table and the feedback
BlockCoverage_update_from_path(blks, path) ==
    LET st == BlockFold([blocks |-> blks, new_coverage |-> FALSE,
                         uniq |-> UsizeMax], path)
    IN  [blocks |-> st.blocks,
         feedback |-> IF st.new_coverage THEN NewBlock(st.uniq)
                      ELSE NoCoverage(st.uniq)]

(***************************************************************************)
(* Edge metric (coverage/edge.rs)                                          *)
(***************************************************************************)
\* windows that also pair the last block with the first
Windows2_Wrap(path) ==
    [i \in 1..Len(path) |-> <<path[i], path[(i % Len(path)) + 1]>>]

\* path.windows(2)
Windows2(path) == [i \in 1..(Len(path) - 1) |-> <<path[i], path[i + 1]>>]

\* one iteration of `for window in path.windows(2)`; st = [edges, new_coverage]
EdgeVisit(st, edge) ==
    LET count == IF edge \in DOMAIN st.edges THEN st.edges[edge] + 1 ELSE 1
    IN  [edges |-> [e \in DOMAIN st.edges \cup {edge} |->
                        IF e = edge THEN count ELSE st.edges[e]],
         new_coverage |-> st.new_coverage \/ edge \notin DOMAIN st.edges]

RECURSIVE EdgeFold(_, _)
EdgeFold(st, ws) ==
    IF ws = <<>> THEN st ELSE EdgeFold(EdgeVisit(st, Head(ws)), Tail(ws))

\* The uniqueness of an edge feedback.  edge.rs returns only the flag; the
\* per-function metric reads a CoverageFeedback from it, whose uniqueness is
\* the minimum edge count over the edges of this trace.
EdgeUniqueness(edgs, path) ==
    LET ws == Windows2(path)
        counts == {edgs[ws[i]] : i \in 1..Len(ws)}
    IN  IF counts = {} THEN UsizeMax
        ELSE CHOOSE m \in counts : \A c \in counts : m <= c

\* EdgeCoverage::update_from_path: the new table and the feedback
EdgeCoverage_update_from_path(edgs, path) ==
    LET st == EdgeFold([edges |-> edgs, new_coverage |-> FALSE], Windows2(path))
        uniq == EdgeUniqueness(st.edges, path)
    IN  [edges |-> st.edges,
         feedback |-> IF st.new_coverage THEN NewEdge(uniq) ELSE NoCoverage(uniq)]

(***************************************************************************)
(* Digests (coverage/per_function.rs)                                      *)
(***************************************************************************)
\* u32::to_ne_bytes on a little-endian host
to_ne_bytes(num) ==
    <<num % 256, (num \div 256) % 256, (num \div 65536) % 256,
      (num \div 16777216) % 256>>

\* md5::compute: a digest without collisions on the byte strings of the model
compute(bytes) == <<"md5", bytes>>

\* PerFunctionPathCoverage::compute_hash
compute_hash(path) == compute(Flatten([i \in 1..Len(path) |-> to_ne_bytes(path[i])]))

\* compute_hash_and_update_cov that keeps only the latest digest of a function
compute_hash_and_update_cov_Replace(cov, total, path) ==
    IF path = <<>> THEN [coverage |-> cov, total_cov |-> total, res |-> FALSE]
    ELSE LET path_hash == compute_hash(path)
             key == path[1]
             set == IF key \in DOMAIN cov THEN cov[key] ELSE {}
             res == path_hash \notin set
         IN  [coverage |-> [f \in DOMAIN cov \cup {key} |->
                                IF f = key THEN {path_hash} ELSE cov[f]],
              total_cov |-> IF res THEN total + 1 ELSE total,
              res |-> res]

\* compute_hash_and_update_cov that counts every digest, new or not
compute_hash_and_update_cov_AlwaysCount(cov, total, path) ==
    IF path = <<>> THEN [coverage |-> cov, total_cov |-> total, res |-> FALSE]
    ELSE LET path_hash == compute_hash(path)
             key == path[1]
             set == IF key \in DOMAIN cov THEN cov[key] ELSE {}
             res == path_hash \notin set
         IN  [coverage |-> [f \in DOMAIN cov \cup {key} |->
                                IF f = key THEN set \cup {path_hash} ELSE cov[f]],
              total_cov |-> total + 1,
              res |-> res]

\* PerFunctionPathCoverage::compute_hash_and_update_cov: the new digest sets,
\* the new total and the returned flag
compute_hash_and_update_cov(cov, total, path) ==
    IF path = <<>> THEN [coverage |-> cov, total_cov |-> total, res |-> FALSE]
    ELSE LET path_hash == compute_hash(path)
             key == path[1]
             set == IF key \in DOMAIN cov THEN cov[key] ELSE {}
             res == path_hash \notin set
         IN  [coverage |-> [f \in DOMAIN cov \cup {key} |->
                                IF f = key THEN set \cup {path_hash} ELSE cov[f]],
              total_cov |-> IF res THEN total + 1 ELSE total,
              res |-> res]

(***************************************************************************)
(* The body of the while loop of reduce_fun1 for a block that is neither   *)
(* a function entry nor an exit (per_function.rs, lines 111-127).          *)
(*                                                                         *)
(* loop_stack maps a block to <<times, last_idx>>; last_idx is the 0-based *)
(* index of the block in reduced_path, as in the source.                   *)
(***************************************************************************)
\* retain that evicts nothing
retain_KeepAll(loop_stack, last_idx) == loop_stack

\* loop_stack.retain(|_, (_, last_idx_)| *last_idx_ <= last_idx)
retain(loop_stack, last_idx) ==
    [b \in {x \in DOMAIN loop_stack : loop_stack[x][2] <= last_idx} |-> loop_stack[b]]

\* loop_stack.insert(block, entry)
insert(loop_stack, block, entry) ==
    [b \in DOMAIN loop_stack \cup {block} |->
        IF b = block THEN entry ELSE loop_stack[b]]

\* truncate that keeps one block more
truncate_OneMore(reduced_path, len) ==
    IF len + 1 >= Len(reduced_path) THEN reduced_path
    ELSE SubSeq(reduced_path, 1, len + 1)

\* reduced_path.truncate(len)
truncate(reduced_path, len) ==
    IF len >= Len(reduced_path) THEN reduced_path ELSE SubSeq(reduced_path, 1, len)

\* IntraBlock with `times <= k`: one more repetition is kept
IntraBlock_NoCollapse(frame, new_block, k) ==
    IF new_block \in DOMAIN frame.loop_stack
    THEN LET times == frame.loop_stack[new_block][1]
             last_idx == frame.loop_stack[new_block][2]
             kept == [b \in {x \in DOMAIN frame.loop_stack :
                                frame.loop_stack[x][2] <= last_idx} |->
                         frame.loop_stack[b]]
         IN  IF times <= k
             THEN [frame EXCEPT
                     !.loop_stack = [b \in DOMAIN kept \cup {new_block} |->
                                        IF b = new_block
                                        THEN <<times + 1, Len(frame.reduced_path)>>
                                        ELSE kept[b]],
                     !.reduced_path = Append(frame.reduced_path, new_block)]
             ELSE [frame EXCEPT
                     !.loop_stack = kept,
                     !.reduced_path = SubSeq(frame.reduced_path, 1, last_idx + 1)]
    ELSE [frame EXCEPT
            !.loop_stack = [b \in DOMAIN frame.loop_stack \cup {new_block} |->
                               IF b = new_block THEN <<1, Len(frame.reduced_path)>>
                               ELSE frame.loop_stack[b]],
            !.reduced_path = Append(frame.reduced_path, new_block)]

\* IntraBlock with `times + 1 < k`: the second repetition is already collapsed
IntraBlock_EarlyCollapse(frame, new_block, k) ==
    IF new_block \in DOMAIN frame.loop_stack
    THEN LET times == frame.loop_stack[new_block][1]
             last_idx == frame.loop_stack[new_block][2]
             kept == [b \in {x \in DOMAIN frame.loop_stack :
                                frame.loop_stack[x][2] <= last_idx} |->
                         frame.loop_stack[b]]
         IN  IF times + 1 < k
             THEN [frame EXCEPT
                     !.loop_stack = [b \in DOMAIN kept \cup {new_block} |->
                                        IF b = new_block
                                        THEN <<times + 1, Len(frame.reduced_path)>>
                                        ELSE kept[b]],
                     !.reduced_path = Append(frame.reduced_path, new_block)]
             ELSE [frame EXCEPT
                     !.loop_stack = kept,
                     !.reduced_path = SubSeq(frame.reduced_path, 1, last_idx + 1)]
    ELSE [frame EXCEPT
            !.loop_stack = [b \in DOMAIN frame.loop_stack \cup {new_block} |->
                               IF b = new_block THEN <<1, Len(frame.reduced_path)>>
                               ELSE frame.loop_stack[b]],
            !.reduced_path = Append(frame.reduced_path, new_block)]

\* the frame after the else branch has handled new_block
IntraBlock(frame, new_block, k) ==
    IF new_block \in DOMAIN frame.loop_stack
    THEN LET times == frame.loop_stack[new_block][1]
             last_idx == frame.loop_stack[new_block][2]
             kept == retain(frame.loop_stack, last_idx)
         IN  IF times < k
             THEN [frame EXCEPT
                     !.loop_stack = insert(kept, new_block,
                                           <<times + 1, Len(frame.reduced_path)>>),
                     !.reduced_path = Append(frame.reduced_path, new_block)]
             ELSE [frame EXCEPT
                     !.loop_stack = kept,
                     !.reduced_path = truncate(frame.reduced_path, last_idx + 1)]
    ELSE [frame EXCEPT
            !.loop_stack = insert(frame.loop_stack, new_block,
                                  <<1, Len(frame.reduced_path)>>),
            !.reduced_path = Append(frame.reduced_path, new_block)]

(***************************************************************************)
(* State                                                                   *)
(***************************************************************************)
VARIABLES
    first_to_lasts,  \* PerFunctionPathCoverage.first_to_lasts: entry -> exits
    blocks,          \* PerFunctionPathCoverage.block_cov.blocks
    edges,           \* PerFunctionPathCoverage.edge_cov.edges
    coverage,        \* PerFunctionPathCoverage.coverage: entry -> digests
    total_cov,       \* PerFunctionPathCoverage.total_cov
    trace,           \* the argument of update_from_path
    path,            \* the cursor `path: &mut &[u32]`, the unread suffix
    stack,           \* the active invocations of reduce_fun1, callee last
    pc,              \* position in update_from_path
    block_feedback,  \* local of update_from_path
    edge_feedback,   \* local of update_from_path
    upd_new_cov,     \* local new_cov of update_from_path
    feedback,        \* the value update_from_path returned
    nobs,            \* number of completed observations
    recorded,        \* history: <<key, path>> hashed during this observation
    fresh,           \* history: those of them whose digest was not yet known
    seen,            \* history: the traces of the earlier observations
    cmp_pc,          \* position of the comparison of three feedback values
    fa, fb, fc,      \* the three feedback values
    ab, ba, bc, ac   \* cmp(fa,fb), cmp(fb,fa), cmp(fb,fc), cmp(fa,fc)

metric_vars == <<first_to_lasts, blocks, edges, coverage, total_cov>>

run_vars == <<trace, path, stack, pc, block_feedback, edge_feedback,
              upd_new_cov, feedback, nobs, recorded, fresh, seen>>

cmp_vars == <<cmp_pc, fa, fb, fc, ab, ba, bc, ac>>

VARIABLES
    coverage_types,  \* Args.coverage_types: the names of the metrics tracked
    metrics,         \* CoverageMetricAggregator.metrics: name -> metric state
    cov,             \* the CoverageFeedbacks of the last update_from_path
    agg_trace,       \* the argument of the last update_from_path
    agg_nobs,        \* number of completed calls of update_from_path
    agg_pc,          \* "off", "ready", or "panic" once a metric panicked
    observed,        \* history: trace -> number of times it was observed
    agg_calls        \* history: the <<name, trace>> calls of the last update

agg_vars == <<coverage_types, metrics, cov, agg_trace, agg_nobs, agg_pc,
              observed, agg_calls>>

VARIABLES
    use_coverage,        \* Args.use_coverage: the metrics that decide a save
    queue,               \* Fuzzer.queue: the test cases in the heap
    queue_dir,           \* the names of the files in the queue directory
    crashes_dir,         \* the names of the files in the crashes directory
    exit_blocks,         \* Fuzzer.exit_blocks
    next_id,             \* Fuzzer.next_id
    total_executions,    \* Stats.total_executions
    new_coverage_count,  \* Stats.new_coverage_count
    crash_count,         \* Stats.crash_count
    level,               \* Stats.level
    fz_pc,               \* position of Fuzzer::run
    seeds_left,          \* files of the input directory not yet read
    test_case,           \* local test_case of fuzz_one_level
    muts,                \* history: calls of mutate since the last pop
    execs,               \* history: calls of run_and_get_coverage since then
    enqueued,            \* history: file name -> [rank, priority] when saved
    status               \* output.status of the last execution, or <<"error">>

fuzz_vars == <<use_coverage, queue, queue_dir, crashes_dir, exit_blocks,
               next_id, total_executions, new_coverage_count, crash_count,
               level, fz_pc, seeds_left, test_case, muts, execs, enqueued,
               status>>

VARIABLES
    mmap,        \* Fuzzer.coverage_mmap: the bytes of the shared region
    sh_pc,       \* position of run_and_get_coverage with respect to the child
    sh_path,     \* local path of run_and_get_coverage
    sh_wrote,    \* history: what the target wrote in this execution
    sh_reads,    \* history: the byte offsets read while decoding
    sh_runs      \* history: number of executions completed

shm_vars == <<mmap, sh_pc, sh_path, sh_wrote, sh_reads, sh_runs>>

VARIABLES
    nm_pc,       \* position of the file name round trip
    nm_prefix,   \* the file name before the postfix
    nm_f,        \* the feedback encoded
    nm_name,     \* the file name
    nm_parsed    \* what from_file_name returned

name_vars == <<nm_pc, nm_prefix, nm_f, nm_name, nm_parsed>>

VARIABLES
    mu_pc,        \* position of mutate: "off", "start" or "done"
    mu_input,     \* the bytes fs::read returned
    mu_strategy,  \* the value drawn for `strategy`
    mu_result     \* the bytes mutate returned

mut_vars == <<mu_pc, mu_input, mu_strategy, mu_result>>

VARIABLES
    p_files,      \* the bytes of the files the instances map, by path
    p_pc,         \* per instance: position of run_and_get_coverage
    p_path,       \* per instance: local path of run_and_get_coverage
    p_wrote,      \* per instance, history: what its target wrote
    p_runs        \* per instance, history: number of executions completed

par_vars == <<p_files, p_pc, p_path, p_wrote, p_runs>>

aux_vars == <<shm_vars, name_vars, mut_vars, par_vars>>

other_vars == <<cmp_vars, agg_vars, fuzz_vars, aux_vars>>

vars == <<metric_vars, run_vars, cmp_vars, agg_vars, fuzz_vars, aux_vars>>

(***************************************************************************)
(* reduce_fun1 as steps on the record                                      *)
(*   m = [first_to_lasts, trace, path, stack, coverage, total_cov,         *)
(*        new_cov, pc, recorded, fresh]                                    *)
(* A frame of m.stack holds the locals of one invocation:                  *)
(*   [first, lasts, reduced_path, loop_stack, new_cov, start]              *)
(* where start is the number of blocks read before the invocation.         *)
(***************************************************************************)
\* `return self.compute_hash_and_update_cov(&reduced_path)` in the invocation
\* whose callers are stk: the digest is inserted, the invocation ends and its
\* caller (reduce_fun1 line 102, or update_from_path line 162) ors the
\* returned flag into its own new_cov.
return_hash(m, stk, reduced_path) ==
    LET r == compute_hash_and_update_cov(m.coverage, m.total_cov, reduced_path)
        key == <<reduced_path[1], reduced_path>>
    IN  [m EXCEPT
            !.coverage = r.coverage,
            !.total_cov = r.total_cov,
            !.stack = IF stk = <<>> THEN stk
                      ELSE [stk EXCEPT ![Len(stk)].new_cov = r.res \/ @],
            !.new_cov = IF stk = <<>> THEN r.res \/ @ ELSE @,
            !.recorded = @ \cup {key},
            !.fresh = IF r.res THEN @ \cup {key} ELSE @]

\* reduce_fun1 from its first line to the start of its while loop (lines
\* 72-96), invoked with callers stk and a non-empty cursor
enter(m, stk) ==
    LET first == Head(m.path)
        m1 == [m EXCEPT !.path = Tail(@)]
    IN  IF first \notin DOMAIN m.first_to_lasts
        THEN [m1 EXCEPT !.pc = "panic", !.stack = stk]
        ELSE IF first \in m.first_to_lasts[first]
        THEN return_hash(m1, stk, <<first>>)
        ELSE [m1 EXCEPT !.stack =
                Append(stk, [first |-> first,
                             lasts |-> m.first_to_lasts[first],
                             reduced_path |-> <<first>>,
                             loop_stack |-> <<>>,
                             new_cov |-> FALSE,
                             start |-> Len(m.trace) - Len(m.path)])]

Top(m) == m.stack[Len(m.stack)]

Callers(m) == SubSeq(m.stack, 1, Len(m.stack) - 1)

\* call that does not append the callee's entry to the caller's buffer
call_NoAppend(m) == enter(m, m.stack)

\* lines 100-102: the next block is a function entry
call(m) ==
    enter(m, [m.stack EXCEPT ![Len(m.stack)].reduced_path = Append(@, Head(m.path))])

\* lines 103-110: the next block is an exit of this function
exit(m) ==
    return_hash([m EXCEPT !.path = Tail(@)], Callers(m),
                Append(Top(m).reduced_path, Head(m.path)))

\* intra with one loop_stack shared by all invocations (that of the outermost
\* one) instead of a local of each
intra_SharedLoopStack(m) ==
    LET top == Len(m.stack)
        shared == [m.stack[top] EXCEPT !.loop_stack = m.stack[1].loop_stack]
        after == IntraBlock(shared, Head(m.path), K)
    IN  [m EXCEPT
            !.stack = [i \in 1..top |->
                          IF i = top /\ top = 1 THEN after
                          ELSE IF i = top
                          THEN [after EXCEPT !.loop_stack = m.stack[top].loop_stack]
                          ELSE IF i = 1
                          THEN [m.stack[1] EXCEPT !.loop_stack = after.loop_stack]
                          ELSE m.stack[i]],
            !.path = Tail(@)]

\* intra that leaves the cursor where it is
intra_NoAdvance(m) ==
    [m EXCEPT !.stack[Len(m.stack)] = IntraBlock(@, Head(m.path), K)]

\* lines 111-127: any other block
intra(m) ==
    [m EXCEPT !.stack[Len(m.stack)] = IntraBlock(@, Head(m.path), K),
              !.path = Tail(@)]

\* partial that returns without hashing the buffer
partial_Drop(m) == [m EXCEPT !.stack = Callers(m)]

\* lines 129-134: the cursor is empty before an exit was seen
partial(m) == return_hash(m, Callers(m), Top(m).reduced_path)

\* which of the four the while loop of the innermost invocation does next
IsPartial(m) == m.path = <<>>

IsCall(m) == m.path # <<>> /\ Head(m.path) \in DOMAIN m.first_to_lasts

IsExit(m) == m.path # <<>> /\ ~IsCall(m) /\ Head(m.path) \in Top(m).lasts

IsIntra(m) == m.path # <<>> /\ ~IsCall(m) /\ ~IsExit(m)

(***************************************************************************)
(* PerFunctionPathCoverage::update_from_path, lines 164-174                *)
(***************************************************************************)
select_feedback(bf, ef, nc) ==
    IF new_cov(bf) THEN bf
    ELSE IF new_cov(ef) THEN ef
    ELSE IF nc THEN NewPath(get_edge_uniqueness(ef))
    ELSE NoCoverage(get_edge_uniqueness(ef))

(***************************************************************************)
(* Inputs                                                                  *)
(***************************************************************************)
\* control-flow graphs: the functions of the unit tests of per_function.rs
\* (test2, test3, test1, test9), a single-block callee and a two-exit function
CFGs ==
    { (1 :> {3}),
      (1 :> {4}),
      (1 :> {2}),
      (1 :> {4}) @@ (2 :> {3}),
      (1 :> {4}) @@ (2 :> {2}),
      (1 :> {3, 4}) }

\* e b^n x
LoopTrace(e, b, n, x) == <<e>> \o Rep(b, n) \o <<x>>

LoopTraces == {LoopTrace(1, 2, n, x) : n \in 0..MaxIter, x \in {3, 4}}

\* e (b c^ns[1]) ... (b c^ns[m]) x
NestedTrace(e, b, c, ns, x) ==
    <<e>> \o Flatten([i \in 1..Len(ns) |-> <<b>> \o Rep(c, ns[i])]) \o <<x>>

NestedTraces == {NestedTrace(1, 2, 3, ns, 4) : ns \in SeqsUpTo(0..MaxInner, MaxOuter)}

\* the traces of the scenarios of the specification and of the unit tests
ScenarioTraces ==
    { <<1, 2, 2, 2, 3>>,
      <<1, 2, 3, 2, 3, 4>>,
      <<1, 2, 3, 3, 3, 2, 3, 3, 3, 2, 3, 3, 3, 3, 4>>,
      <<1, 1, 2, 2>>,
      <<1, 3, 2, 2, 3, 4, 3, 5>>,
      <<1, 2, 3, 2, 3, 2, 3, 4>>,
      <<>> }

Traces ==
    SeqsUpTo(1..NumBlocks, MaxLen) \cup LoopTraces \cup NestedTraces
        \cup ScenarioTraces

ObsTraces == SeqsUpTo(1..NumObsBlocks, MaxObsLen)

(***************************************************************************)
(* Initial states                                                          *)
(***************************************************************************)
\* PerFunctionPathCoverage::from_json: all coverage state empty
InitMetric ==
    /\ blocks = <<>>
    /\ edges = <<>>
    /\ coverage = <<>>
    /\ total_cov = 0

InitRun ==
    /\ path = <<>>
    /\ stack = <<>>
    /\ pc = "idle"
    /\ block_feedback = NoCoverage(UsizeMax)
    /\ edge_feedback = NoCoverage(UsizeMax)
    /\ upd_new_cov = FALSE
    /\ feedback = NoCoverage(UsizeMax)
    /\ nobs = 0
    /\ recorded = {}
    /\ fresh = {}
    /\ seen = {}

NoCmp ==
    /\ cmp_pc = "off"
    /\ fa = NoCoverage(0) /\ fb = NoCoverage(0) /\ fc = NoCoverage(0)
    /\ ab = "none" /\ ba = "none" /\ bc = "none" /\ ac = "none"

\* no aggregator is in use
NoAgg ==
    /\ coverage_types = <<>>
    /\ metrics = <<>>
    /\ cov = <<>>
    /\ agg_trace = <<>>
    /\ agg_nobs = 0
    /\ agg_pc = "off"
    /\ observed = <<>>
    /\ agg_calls = <<>>

\* no fuzzer is running
NoFuzz ==
    /\ use_coverage = {}
    /\ queue = {}
    /\ queue_dir = {}
    /\ crashes_dir = {}
    /\ exit_blocks = {}
    /\ next_id = 0
    /\ total_executions = 0
    /\ new_coverage_count = 0
    /\ crash_count = 0
    /\ level = 0
    /\ fz_pc = "off"
    /\ seeds_left = 0
    /\ test_case = <<>>
    /\ muts = 0
    /\ execs = 0
    /\ enqueued = <<>>
    /\ status = <<"none">>

\* no shared region is in use
NoShm ==
    /\ mmap = <<>>
    /\ sh_pc = "off"
    /\ sh_path = <<>>
    /\ sh_wrote = [any |-> FALSE, n |-> 0, blocks |-> <<>>]
    /\ sh_reads = {}
    /\ sh_runs = 0

\* no file name is being encoded
NoName ==
    /\ nm_pc = "off"
    /\ nm_prefix = <<>>
    /\ nm_f = NoCoverage(0)
    /\ nm_name = <<>>
    /\ nm_parsed = NoCoverage(0)

\* mutate is not called
NoMut ==
    /\ mu_pc = "off"
    /\ mu_input = <<>>
    /\ mu_strategy = 0
    /\ mu_result = <<>>

\* no parallel fuzzer was made
NoPar ==
    /\ p_files = <<>>
    /\ p_pc = <<>>
    /\ p_path = <<>>
    /\ p_wrote = <<>>
    /\ p_runs = <<>>

\* a fresh metric about to observe one trace
Init ==
    /\ first_to_lasts \in CFGs
    /\ trace \in Traces
    /\ InitMetric /\ InitRun /\ NoCmp /\ NoAgg /\ NoFuzz /\ NoShm /\ NoName /\ NoMut /\ NoPar

\* a fresh metric about to observe the first of several short traces
InitPfp ==
    /\ first_to_lasts \in CFGs
    /\ trace \in ObsTraces
    /\ InitMetric /\ InitRun /\ NoCmp /\ NoAgg /\ NoFuzz /\ NoShm /\ NoName /\ NoMut /\ NoPar

(***************************************************************************)
(* Actions                                                                 *)
(***************************************************************************)
Machine ==
    [first_to_lasts |-> first_to_lasts, trace |-> trace, path |-> path,
     stack |-> stack, coverage |-> coverage, total_cov |-> total_cov,
     new_cov |-> upd_new_cov, pc |-> pc, recorded |-> recorded, fresh |-> fresh]

\* the state after a step of the reducer that leads to m
Becomes(m) ==
    /\ path' = m.path
    /\ stack' = m.stack
    /\ coverage' = m.coverage
    /\ total_cov' = m.total_cov
    /\ upd_new_cov' = m.new_cov
    /\ pc' = m.pc
    /\ recorded' = m.recorded
    /\ fresh' = m.fresh
    /\ UNCHANGED <<first_to_lasts, blocks, edges, trace, block_feedback,
                   edge_feedback, feedback, nobs, seen, other_vars>>

\* update_from_path, lines 157-160
Begin ==
    /\ pc = "idle"
    /\ LET b == BlockCoverage_update_from_path(blocks, trace)
           e == EdgeCoverage_update_from_path(edges, trace)
       IN  /\ blocks' = b.blocks
           /\ block_feedback' = b.feedback
           /\ edges' = e.edges
           /\ edge_feedback' = e.feedback
    /\ upd_new_cov' = FALSE
    /\ path' = trace
    /\ stack' = <<>>
    /\ recorded' = {}
    /\ fresh' = {}
    /\ pc' = "loop"
    /\ UNCHANGED <<first_to_lasts, coverage, total_cov, trace, feedback, nobs,
                   seen, other_vars>>

\* update_from_path, lines 161-162: the while loop invokes reduce_fun
Invoke ==
    /\ pc = "loop" /\ stack = <<>> /\ path # <<>>
    /\ Becomes(enter(Machine, <<>>))

\* one iteration of the while loop of the innermost invocation
Call == pc = "loop" /\ stack # <<>> /\ IsCall(Machine) /\ Becomes(call(Machine))

Exit == pc = "loop" /\ stack # <<>> /\ IsExit(Machine) /\ Becomes(exit(Machine))

Intra == pc = "loop" /\ stack # <<>> /\ IsIntra(Machine) /\ Becomes(intra(Machine))

\* the while loop of the innermost invocation ends on the empty cursor
Partial ==
    pc = "loop" /\ stack # <<>> /\ IsPartial(Machine) /\ Becomes(partial(Machine))

\* update_from_path, lines 164-174
Finish ==
    /\ pc = "loop" /\ stack = <<>> /\ path = <<>>
    /\ feedback' = select_feedback(block_feedback, edge_feedback, upd_new_cov)
    /\ nobs' = nobs + 1
    /\ pc' = "done"
    /\ UNCHANGED <<metric_vars, trace, path, stack, block_feedback,
                   edge_feedback, upd_new_cov, recorded, fresh, seen, other_vars>>

\* the driver runs the same input again: the same trace is observed
Reobserve ==
    /\ pc = "done" /\ nobs < MaxObs
    /\ seen' = seen \cup {trace}
    /\ pc' = "idle"
    /\ UNCHANGED <<metric_vars, trace, path, stack, block_feedback,
                   edge_feedback, upd_new_cov, feedback, nobs, recorded, fresh,
                   other_vars>>

\* the driver runs another input: any trace is observed next
Resubmit ==
    /\ pc = "done" /\ nobs < MaxObs
    /\ trace' \in ObsTraces
    /\ seen' = seen \cup {trace}
    /\ pc' = "idle"
    /\ UNCHANGED <<metric_vars, path, stack, block_feedback, edge_feedback,
                   upd_new_cov, feedback, nobs, recorded, fresh, other_vars>>

Observe == Begin \/ Invoke \/ Call \/ Exit \/ Intra \/ Partial \/ Finish

Next == Observe \/ Reobserve

Spec == Init /\ [][Next]_vars

\* one observation of one trace, run to its end: update_from_path is
\* sequential code, so a step that can be taken is taken
InitTerm ==
    /\ first_to_lasts \in CFGs
    /\ trace \in ObsTraces
    /\ InitMetric /\ InitRun /\ NoCmp /\ NoAgg /\ NoFuzz /\ NoShm /\ NoName /\ NoMut /\ NoPar

NextTerm == Observe

SpecTerm == InitTerm /\ [][NextTerm]_vars /\ WF_vars(NextTerm)

NextPfp == Observe \/ Resubmit

SpecPfp == InitPfp /\ [][NextPfp]_vars

(***************************************************************************)
(* The ordering of feedback values, applied to three values                *)
(***************************************************************************)
InitCmp ==
    /\ fa \in CoverageFeedback(MaxUniq, MaxOldDepth)
    /\ fb \in CoverageFeedback(MaxUniq, MaxOldDepth)
    /\ fc \in CoverageFeedback(MaxUniq, MaxOldDepth)
    /\ cmp_pc = "input"
    /\ ab = "none" /\ ba = "none" /\ bc = "none" /\ ac = "none"
    /\ first_to_lasts = <<>>
    /\ trace = <<>>
    /\ InitMetric /\ InitRun /\ NoAgg /\ NoFuzz /\ NoShm /\ NoName /\ NoMut /\ NoPar

Compare ==
    /\ cmp_pc = "input"
    /\ ab' = cmp(fa, fb)
    /\ ba' = cmp(fb, fa)
    /\ bc' = cmp(fb, fc)
    /\ ac' = cmp(fa, fc)
    /\ cmp_pc' = "compared"
    /\ UNCHANGED <<metric_vars, run_vars, fa, fb, fc, agg_vars, fuzz_vars,
                   aux_vars>>

NextCmp == Compare

SpecCmp == InitCmp /\ [][NextCmp]_vars

(***************************************************************************)
(* Raw-path metric (coverage/raw_path.rs)                                  *)
(***************************************************************************)
\* update_from_path that looks the digest up without inserting it
RawPathCoverage_update_from_path_NoInsert(paths, trc) ==
    LET bytes == Flatten([i \in 1..Len(trc) |-> to_ne_bytes(trc[i])])
        path_hash == compute(bytes)
    IN  [paths |-> paths,
         feedback |-> IF path_hash \notin paths THEN NewPath(0) ELSE NoCoverage(0)]

\* RawPathCoverage::update_from_path: the new digest set and the feedback.
\* The source returns NoCoverage without a payload; 0 stands for it.
RawPathCoverage_update_from_path(paths, trc) ==
    LET bytes == Flatten([i \in 1..Len(trc) |-> to_ne_bytes(trc[i])])
        path_hash == compute(bytes)
        new_path == path_hash \notin paths
    IN  [paths |-> paths \cup {path_hash},
         feedback |-> IF new_path THEN NewPath(0) ELSE NoCoverage(0)]

(***************************************************************************)
(* PerFunctionPathCoverage::update_from_path as one operation              *)
(***************************************************************************)
\* the next step of the reducer on the record m
reduce_step(m) ==
    IF m.stack = <<>> THEN enter(m, <<>>)
    ELSE IF IsPartial(m) THEN partial(m)
    ELSE IF IsCall(m) THEN call(m)
    ELSE IF IsExit(m) THEN exit(m)
    ELSE intra(m)

\* `while !path_ref.is_empty() { new_cov = self.reduce_fun(..) || new_cov }`
RECURSIVE reduce_all(_)
reduce_all(m) ==
    IF m.pc = "panic" \/ (m.stack = <<>> /\ m.path = <<>>) THEN m
    ELSE reduce_all(reduce_step(m))

\* update_from_path that leaves the embedded block table alone
PerFunctionPathCoverage_update_from_path_NoBlocks(st, trc) ==
    LET b == BlockCoverage_update_from_path(st.blocks, trc)
        e == EdgeCoverage_update_from_path(st.edges, trc)
        m == reduce_all([first_to_lasts |-> st.first_to_lasts, trace |-> trc,
                         path |-> trc, stack |-> <<>>,
                         coverage |-> st.coverage, total_cov |-> st.total_cov,
                         new_cov |-> FALSE, pc |-> "loop", recorded |-> {},
                         fresh |-> {}])
    IN  [state |-> [st EXCEPT !.edges = e.edges,
                              !.coverage = m.coverage,
                              !.total_cov = m.total_cov],
         feedback |-> select_feedback(b.feedback, e.feedback, m.new_cov),
         panic |-> m.pc = "panic"]

\* st = [first_to_lasts, blocks, edges, coverage, total_cov]
PerFunctionPathCoverage_update_from_path(st, trc) ==
    LET b == BlockCoverage_update_from_path(st.blocks, trc)
        e == EdgeCoverage_update_from_path(st.edges, trc)
        m == reduce_all([first_to_lasts |-> st.first_to_lasts, trace |-> trc,
                         path |-> trc, stack |-> <<>>,
                         coverage |-> st.coverage, total_cov |-> st.total_cov,
                         new_cov |-> FALSE, pc |-> "loop", recorded |-> {},
                         fresh |-> {}])
    IN  [state |-> [st EXCEPT !.blocks = b.blocks, !.edges = e.edges,
                              !.coverage = m.coverage,
                              !.total_cov = m.total_cov],
         feedback |-> select_feedback(b.feedback, e.feedback, m.new_cov),
         panic |-> m.pc = "panic"]

(***************************************************************************)
(* The aggregator (coverage/mod.rs)                                        *)
(***************************************************************************)
\* get_coverage_metric_by_name: a fresh metric; the per-function metric reads
\* its control-flow graph from the file named by CFG_FILE
get_coverage_metric_by_name(name, cfg) ==
    CASE name = "block" -> <<>>
      [] name = "edge" -> <<>>
      [] name = "rawpath" -> {}
      [] name = "pfp" -> [first_to_lasts |-> cfg, blocks |-> <<>>,
                          edges |-> <<>>, coverage |-> <<>>, total_cov |-> 0]

\* CoverageMetricAggregator::new over the metrics of the names
CoverageMetricAggregator_new(names, cfg) ==
    [n \in {names[i] : i \in 1..Len(names)} |->
        get_coverage_metric_by_name(n, cfg)]

\* `metric.update_from_path(trc)` of the metric called name
metric_update_from_path(name, st, trc) ==
    CASE name = "block" ->
            LET r == BlockCoverage_update_from_path(st, trc)
            IN  [state |-> r.blocks, feedback |-> r.feedback, panic |-> FALSE]
      [] name = "edge" ->
            LET r == EdgeCoverage_update_from_path(st, trc)
            IN  [state |-> r.edges, feedback |-> r.feedback, panic |-> FALSE]
      [] name = "rawpath" ->
            LET r == RawPathCoverage_update_from_path(st, trc)
            IN  [state |-> r.paths, feedback |-> r.feedback, panic |-> FALSE]
      [] name = "pfp" -> PerFunctionPathCoverage_update_from_path(st, trc)

\* the loop that stops after the first metric that reports new coverage
RECURSIVE AggregatorFold_ShortCircuit(_, _, _, _)
AggregatorFold_ShortCircuit(names, i, a, trc) ==
    IF i > Len(names) \/ a.panic
       \/ (i > 1 /\ new_cov(a.results[names[i - 1]])) THEN a
    ELSE LET name == names[i]
             updated == metric_update_from_path(name, a.metrics[name], trc)
         IN  AggregatorFold_ShortCircuit(names, i + 1,
                [metrics |-> [a.metrics EXCEPT ![name] = updated.state],
                 results |-> (name :> updated.feedback) @@ a.results,
                 panic |-> updated.panic,
                 calls |-> Append(a.calls, <<name, trc>>)],
                trc)

\* the loop of CoverageMetricAggregator::update_from_path over the metrics
\* names[i..]; a = [metrics, results, panic, calls], where calls is the
\* history of the calls made, <<name, trace>> each
RECURSIVE AggregatorFold(_, _, _, _)
AggregatorFold(names, i, a, trc) ==
    IF i > Len(names) \/ a.panic THEN a
    ELSE LET name == names[i]
             updated == metric_update_from_path(name, a.metrics[name], trc)
         IN  AggregatorFold(names, i + 1,
                [metrics |-> [a.metrics EXCEPT ![name] = updated.state],
                 results |-> (name :> updated.feedback) @@ a.results,
                 panic |-> updated.panic,
                 calls |-> Append(a.calls, <<name, trc>>)],
                trc)

\* CoverageMetricAggregator::update_from_path
CoverageMetricAggregator_update_from_path(names, ms, trc) ==
    AggregatorFold(names, 1,
                   [metrics |-> ms, results |-> <<>>, panic |-> FALSE,
                    calls |-> <<>>],
                   trc)

\* the control-flow graphs given to the aggregator's per-function metric
AggCFGs ==
    { (1 :> {2}),
      (1 :> {2}) @@ (2 :> {2}),
      (1 :> {3}) @@ (2 :> {3}) }

AggTraces == SeqsUpTo(1..AggBlocks, AggLen)

AllMetrics == <<"block", "edge", "rawpath", "pfp">>

\* the orders in which the metrics are given to CoverageMetricAggregator::new
AggOrders == {AllMetrics, <<"pfp", "rawpath", "edge", "block">>}

\* a fresh aggregator over the four metrics
InitAgg ==
    /\ coverage_types \in AggOrders
    /\ \E cfg \in AggCFGs :
          metrics = CoverageMetricAggregator_new(coverage_types, cfg)
    /\ cov = <<>>
    /\ agg_trace = <<>>
    /\ agg_nobs = 0
    /\ agg_pc = "ready"
    /\ observed = <<>>
    /\ agg_calls = <<>>
    /\ first_to_lasts = <<>>
    /\ trace = <<>>
    /\ InitMetric /\ InitRun /\ NoCmp /\ NoFuzz /\ NoShm /\ NoName /\ NoMut /\ NoPar

\* history: one more observation of the trace t
Record(obs, t) ==
    (t :> (IF t \in DOMAIN obs THEN obs[t] + 1 ELSE 1)) @@ obs

\* the fuzzer hands the trace of one execution to the aggregator
AggObserve ==
    /\ agg_pc = "ready" /\ agg_nobs < AggObs
    /\ \E t \in AggTraces :
          LET r == CoverageMetricAggregator_update_from_path(coverage_types, metrics, t)
          IN  /\ agg_trace' = t
              /\ IF r.panic
                 THEN /\ agg_pc' = "panic"
                      /\ UNCHANGED <<metrics, cov, agg_nobs, observed, agg_calls>>
                 ELSE /\ metrics' = r.metrics
                      /\ cov' = r.results
                      /\ agg_calls' = r.calls
                      /\ agg_nobs' = agg_nobs + 1
                      /\ observed' = Record(observed, t)
                      /\ UNCHANGED agg_pc
    /\ UNCHANGED <<coverage_types, metric_vars, run_vars, cmp_vars, fuzz_vars,
                   aux_vars>>

NextAgg == AggObserve

SpecAgg == InitAgg /\ [][NextAgg]_vars

(***************************************************************************)
(* The fuzzer (fuzzer/mod.rs)                                              *)
(*                                                                         *)
(* A test case is [filename, priority]; a file name is a tuple of the      *)
(* parts that the format string joins.  The bytes of an input are not      *)
(* kept: the target decides the trace of an execution.                     *)
(***************************************************************************)
\* CoverageMetric::priority of the metric called name
get_metric_priority(name) ==
    CASE name = "block" -> 100
      [] name = "edge" -> 90
      [] name = "pfp" -> 20
      [] name = "rawpath" -> 10

\* the greatest element of the set S of numbers, 0 if S is empty
MaxOf(S) == IF S = {} THEN 0 ELSE CHOOSE m \in S : \A c \in S : m >= c

\* summarize_coverage that looks at every metric, used or not
summarize_coverage_AllMetrics(use, c) ==
    LET fired == {n \in DOMAIN c : new_cov(c[n])}
    IN  [any_cov |-> fired # {},
         priority |-> MaxOf({get_metric_priority(n) : n \in fired})]

\* Fuzzer::summarize_coverage over the feedbacks c with use = use_coverage
summarize_coverage(use, c) ==
    LET fired == {n \in DOMAIN c \cap use : new_cov(c[n])}
    IN  [any_cov |-> fired # {},
         priority |-> MaxOf({get_metric_priority(n) : n \in fired})]

\* save_to_queue that names every file after the id 0
queue_filename_NoId(id, new_coverage) ==
    IF new_coverage THEN <<"id", 0, "+cov">> ELSE <<"id", 0>>

\* the file name save_to_queue gives, "id:{:06}:+cov" or "id:{:06}"
queue_filename(id, new_coverage) ==
    IF new_coverage THEN <<"id", id, "+cov">> ELSE <<"id", id>>

\* the file name save_crash gives, "crash:{:06},sig:{}"
crash_filename(id, signal) == <<"crash", id, "sig", signal>>

\* impl Ord for TestCase
TestCase_cmp(self, other) == usize_cmp(self.priority, other.priority)

\* pop that may return any test case of the heap
pop_Any(q) == q

\* BinaryHeap::pop: the test cases that pop may return, the greatest ones
pop(q) == {tc \in q : \A o \in q : TestCase_cmp(tc, o) # "Less"}

\* the signals that count as a crash: SIGSEGV, SIGABRT, SIGBUS
CrashSignals == {11, 6, 7}

\* how an execution of the target ends: <<"exit", code>> or
\* <<"signal", number>>
Statuses ==
    {<<"exit", 0>>, <<"exit", 1>>, <<"signal", 11>>, <<"signal", 15>>}

\* ExitStatus::success
success(st) == st = <<"exit", 0>>

\* ExitStatus::signal is Some(n)
signalled(st) == st[1] = "signal"

\* the traces the target can leave in the shared memory
FuzzTraces == {<<>>, <<1>>, <<1, 2>>, <<2>>}

FuzzCFG == (1 :> {2})

\* the values of --use-coverage
UseCovs == {{"block"}, {"edge"}, {"rawpath"}, {"edge", "pfp"}}

\* the best bucket (CoverageFeedback::priority) of the feedbacks of the
\* metrics in use
BestUsed(use, c) == MaxOf({priority(c[n]) : n \in DOMAIN c \cap use})

\* Fuzzer::new followed by the start of run
InitFuzz ==
    /\ use_coverage \in UseCovs
    /\ coverage_types = AllMetrics
    /\ metrics = CoverageMetricAggregator_new(AllMetrics, FuzzCFG)
    /\ cov = <<>>
    /\ agg_trace = <<>>
    /\ agg_nobs = 0
    /\ agg_pc = "ready"
    /\ observed = <<>>
    /\ agg_calls = <<>>
    /\ queue = {}
    /\ queue_dir = {}
    /\ crashes_dir = {}
    /\ exit_blocks = {}
    /\ next_id = 0
    /\ total_executions = 0
    /\ new_coverage_count = 0
    /\ crash_count = 0
    /\ level = 0
    /\ fz_pc = "seeds"
    /\ seeds_left = NumSeeds
    /\ test_case = <<>>
    /\ muts = 0
    /\ execs = 0
    /\ enqueued = <<>>
    /\ status = <<"none">>
    /\ first_to_lasts = <<>>
    /\ trace = <<>>
    /\ InitMetric /\ InitRun /\ NoCmp /\ NoShm /\ NoName /\ NoMut /\ NoPar

\* the part of an iteration after run_and_get_coverage returned Ok: the
\* feedbacks c are summarized and the input is saved and pushed if they
\* trigger (fuzz_one_level lines 492-497, load_initial_seeds 554-558);
\* next is where the loop continues
SaveIfNew(c, next) ==
    LET s == summarize_coverage(use_coverage, c)
        filename == queue_filename(next_id, s.any_cov)
    IN  IF s.any_cov
        THEN /\ next_id' = next_id + 1
             /\ \/ /\ queue_dir' = queue_dir \cup {filename}
                    /\ new_coverage_count' = new_coverage_count + 1
                    /\ queue' = queue \cup
                          {[filename |-> filename, priority |-> s.priority]}
                    /\ enqueued' =
                          (filename :> [rank |-> BestUsed(use_coverage, c),
                                        priority |-> s.priority]) @@ enqueued
                    /\ fz_pc' = next
                \/ /\ fz_pc' = "failed"
                    /\ UNCHANGED <<queue_dir, new_coverage_count, queue, enqueued>>
        ELSE /\ fz_pc' = next
             /\ UNCHANGED <<next_id, queue_dir, new_coverage_count, queue, enqueued>>

\* what run_and_get_coverage and the caller leave alone when it returns Err
\* before the child was waited for
Skipped ==
    UNCHANGED <<metrics, cov, agg_trace, agg_nobs, agg_calls, queue, queue_dir,
                crashes_dir, exit_blocks, next_id, new_coverage_count,
                crash_count, enqueued>>

\* TargetFailed that ends the run
TargetFailed_Fatal(next) ==
    /\ status' = <<"error">>
    /\ fz_pc' = "failed"
    /\ Skipped

\* run_and_get_coverage returns Err before the child was waited for (the
\* temporary file, spawn, the write to stdin or wait failed, lines 300-348):
\* the caller logs the error and goes on with the next input
TargetFailed(next) ==
    /\ status' = <<"error">>
    /\ fz_pc' = next
    /\ Skipped

\* HandleCrash without the test of exit_blocks
HandleCrash_NoDedup(t, st, saved) ==
    IF ~success(st) /\ signalled(st) /\ st[2] \in CrashSignals
    THEN /\ exit_blocks' = exit_blocks \cup {Last(t)}
         /\ IF saved
            THEN /\ crashes_dir' = crashes_dir \cup
                        {crash_filename(next_id, st[2])}
                 /\ crash_count' = crash_count + 1
            ELSE UNCHANGED <<crashes_dir, crash_count>>
    ELSE /\ saved
         /\ UNCHANGED <<exit_blocks, crashes_dir, crash_count>>

\* lines 380-400: the crash of an execution with the trace t and the status
\* st; saved tells whether fs::write of the crash file succeeded
HandleCrash(t, st, saved) ==
    IF ~success(st) /\ signalled(st) /\ st[2] \in CrashSignals
       /\ Last(t) \notin exit_blocks
    THEN /\ exit_blocks' = exit_blocks \cup {Last(t)}
         /\ IF saved
            THEN /\ crashes_dir' = crashes_dir \cup
                        {crash_filename(next_id, st[2])}
                 /\ crash_count' = crash_count + 1
            ELSE UNCHANGED <<crashes_dir, crash_count>>
    ELSE /\ saved
         /\ UNCHANGED <<exit_blocks, crashes_dir, crash_count>>

\* run_and_get_coverage on one input, then SaveIfNew
RunInput(next) ==
    /\ total_executions' = total_executions + 1
    /\ \/ TargetFailed(next)
       \/ \E t \in FuzzTraces, st \in Statuses, saved \in BOOLEAN,
             logged \in BOOLEAN :
             LET crashed == ~success(st) /\ signalled(st)
                                /\ st[2] \in CrashSignals
                 r == CoverageMetricAggregator_update_from_path(
                          coverage_types, metrics, t)
             IN  /\ status' = st
                 /\ IF crashed /\ t = <<>>
                    THEN \* path.last().unwrap() on the empty path
                         /\ fz_pc' = "panic"
                         /\ saved /\ logged
                         /\ agg_trace' = t
                         /\ UNCHANGED <<metrics, cov, agg_nobs,
                                        agg_calls,
                                        queue, queue_dir, crashes_dir,
                                        exit_blocks, next_id,
                                        new_coverage_count, crash_count,
                                        enqueued>>
                    ELSE /\ HandleCrash(t, st, saved)
                         /\ IF ~saved \/ ~logged
                            THEN \* save_crash or log_fuzzing_progress
                                 \* returned Err (lines 392, 403)
                                 /\ ~saved => logged
                                 /\ fz_pc' = next
                                 /\ UNCHANGED <<metrics, cov, agg_trace,
                                                agg_nobs, agg_calls, queue,
                                                queue_dir,
                                                next_id, new_coverage_count,
                                                enqueued>>
                            ELSE IF r.panic
                            THEN /\ fz_pc' = "panic"
                                 /\ agg_trace' = t
                                 /\ UNCHANGED <<metrics, cov, agg_nobs,
                                                agg_calls, queue, queue_dir,
                                                next_id, new_coverage_count,
                                                enqueued>>
                            ELSE /\ metrics' = r.metrics
                                 /\ cov' = r.results
                                 /\ agg_trace' = t
                                 /\ agg_nobs' = agg_nobs + 1
                                 /\ agg_calls' = r.calls
                                 /\ SaveIfNew(r.results, next)
    /\ UNCHANGED <<use_coverage, coverage_types, agg_pc, observed,
                   level, test_case, muts, metric_vars, run_vars, cmp_vars,
                   aux_vars>>

\* load_initial_seeds: one file of the input directory
LoadSeed ==
    /\ fz_pc = "seeds" /\ seeds_left > 0
    /\ seeds_left' = seeds_left - 1
    /\ RunInput("seeds")
    /\ UNCHANGED execs

\* load_initial_seeds returns and fuzz_loop begins
StartLoop ==
    /\ fz_pc = "seeds" /\ seeds_left = 0
    /\ fz_pc' = "pop"
    /\ UNCHANGED <<status, use_coverage, queue, queue_dir, crashes_dir, exit_blocks,
                   next_id, total_executions, new_coverage_count, crash_count,
                   level, seeds_left, test_case, muts, execs, enqueued,
                   agg_vars, metric_vars, run_vars, cmp_vars, aux_vars>>

\* fuzz_one_level: `while let Some(test_case) = self.queue.pop()`
Pop ==
    /\ fz_pc = "pop" /\ queue # {} /\ total_executions < MaxExecs
    /\ \E tc \in pop(queue) :
          /\ test_case' = tc
          /\ queue' = queue \ {tc}
    /\ muts' = 0
    /\ execs' = 0
    /\ fz_pc' = "mutate"
    /\ UNCHANGED <<status, use_coverage, queue_dir, crashes_dir, exit_blocks, next_id,
                   total_executions, new_coverage_count, crash_count, level,
                   seeds_left, enqueued, agg_vars, metric_vars, run_vars,
                   cmp_vars, aux_vars>>

\* fuzz_one_level: `match self.mutate(&test_case)`; mutate reads the file of
\* the test case and fails if it cannot
Mutate ==
    /\ fz_pc = "mutate"
    /\ muts' = muts + 1
    /\ \/ test_case.filename \in queue_dir /\ fz_pc' = "run"
       \/ fz_pc' = "pop"
    /\ UNCHANGED <<status, use_coverage, queue, queue_dir, crashes_dir, exit_blocks,
                   next_id, total_executions, new_coverage_count, crash_count,
                   level, seeds_left, test_case, execs, enqueued, agg_vars,
                   metric_vars, run_vars, cmp_vars, aux_vars>>

\* fuzz_one_level: `match self.run_and_get_coverage(&mutated)` and its arms
Run ==
    /\ fz_pc = "run"
    /\ execs' = execs + 1
    /\ RunInput("pop")
    /\ UNCHANGED seeds_left

\* load_queue that gives the reloaded test cases the priority 1
load_queue_Priority1(dir) == {[filename |-> f, priority |-> 1] : f \in dir}

\* Fuzzer::load_queue: the test cases it pushes, one of priority 0 for every
\* file of the queue directory
load_queue(dir) == {[filename |-> f, priority |-> 0] : f \in dir}

\* fuzz_loop: the heap is empty, load_queue pushes every file of the queue
\* directory with priority 0 and the level is counted
Rescan ==
    /\ fz_pc = "pop" /\ queue = {} /\ level < MaxLevel
    /\ queue' = queue \cup load_queue(queue_dir)
    /\ level' = level + 1
    /\ UNCHANGED <<status, use_coverage, queue_dir, crashes_dir, exit_blocks, next_id,
                   total_executions, new_coverage_count, crash_count, fz_pc,
                   seeds_left, test_case, muts, execs, enqueued, agg_vars,
                   metric_vars, run_vars, cmp_vars, aux_vars>>

NextFuzz == LoadSeed \/ StartLoop \/ Pop \/ Mutate \/ Run \/ Rescan

SpecFuzz == InitFuzz /\ [][NextFuzz]_vars

\* the loop of one instance when its thread keeps running: every call it
\* makes returns (the child is waited for, lines 333-348), so a step that can
\* be taken is taken
SpecFuzzFair == InitFuzz /\ [][NextFuzz]_vars /\ WF_vars(NextFuzz)

(***************************************************************************)
(* The shared trace region (fuzzer/mod.rs, run_and_get_coverage)           *)
(*                                                                         *)
(* mmap is the sequence of the bytes of the region; the byte at offset o   *)
(* of the source is mmap[o + 1].                                           *)
(***************************************************************************)
\* u32::from_ne_bytes on a little-endian host
from_ne_bytes(bytes) ==
    bytes[1] + 256 * bytes[2] + 65536 * bytes[3] + 16777216 * bytes[4]

\* `mmap[from..to]`, offsets counted from 0 and `to` excluded
slice(m, from, to) == SubSeq(m, from + 1, to)

\* `mmap[from..from + 4].copy_from_slice(bytes)`
copy_from_slice(m, from, bytes) ==
    [i \in 1..Len(m) |-> IF i > from /\ i <= from + 4 THEN bytes[i - from] ELSE m[i]]

\* lines 325-329 without the store
clear_length_Keep(m) == m

\* lines 325-329: the length word is set to 0 if the region has one
clear_length(m) ==
    IF Len(m) >= 4 THEN copy_from_slice(m, 0, to_ne_bytes(0)) ELSE m

\* the bound of the loop with the whole region counted as block ids
read_count_Whole(len, size) == Min(len, size \div 4)

\* line 370: `len.min(self.coverage_mmap.len() / 4 - 1)`
read_count(len, size) == Min(len, size \div 4 - 1)

\* lines 370-375: the iterations i.. of the for loop, n being its bound;
\* d = [path, reads, panic], a slice that leaves the region panics
RECURSIVE decode_from(_, _, _, _)
decode_from(m, i, n, d) ==
    IF i >= n \/ d.panic THEN d
    ELSE LET offset == 4 + i * 4
         IN  IF offset + 4 > Len(m)
             THEN [d EXCEPT !.panic = TRUE]
             ELSE decode_from(m, i + 1, n,
                     [path |-> Append(d.path, from_ne_bytes(slice(m, offset, offset + 4))),
                      reads |-> d.reads \cup offset..(offset + 3),
                      panic |-> FALSE])

\* lines 367-378: the trace read from the region
decode(m) ==
    IF Len(m) >= 4
    THEN decode_from(m, 0, read_count(from_ne_bytes(slice(m, 0, 4)), Len(m)),
                     [path |-> <<>>, reads |-> 0..3, panic |-> FALSE])
    ELSE [path |-> <<>>, reads |-> {}, panic |-> FALSE]

\* the sizes of the region in bytes: whole words and up to three more bytes
ShmSizes == {4 * w + p : w \in 1..MaxShmWords, p \in {0, 3}}

\* the block ids a target may store
ShmBlockIds == {1, 258}

\* the lengths a target may store: those that fit, and oversized ones
ShmLens == 0..MaxShmWords \cup {16777216}

\* the region after a target stored the length n and the block ids blks
target_store(m, n, blks) ==
    LET words == <<n>> \o blks
    IN  [i \in 1..Len(m) |->
            IF (i - 1) \div 4 < Len(words)
            THEN to_ne_bytes(words[((i - 1) \div 4) + 1])[((i - 1) % 4) + 1]
            ELSE m[i]]

\* create_coverage_shm: the region is mapped and filled with 0
InitShm ==
    /\ \E size \in ShmSizes : mmap = [i \in 1..size |-> 0]
    /\ sh_pc = "ready"
    /\ sh_path = <<>>
    /\ sh_wrote = [any |-> FALSE, n |-> 0, blocks |-> <<>>]
    /\ sh_reads = {}
    /\ sh_runs = 0
    /\ first_to_lasts = <<>>
    /\ trace = <<>>
    /\ InitMetric /\ InitRun /\ NoCmp /\ NoAgg /\ NoFuzz /\ NoName /\ NoMut /\ NoPar

ShmRest ==
    <<metric_vars, run_vars, cmp_vars, agg_vars, fuzz_vars, name_vars,
      mut_vars, par_vars>>

\* lines 294-329: the start of run_and_get_coverage up to the clearing of
\* the length word
Clear ==
    /\ sh_pc = "ready" /\ sh_runs < MaxShmRuns
    /\ mmap' = clear_length(mmap)
    /\ sh_wrote' = [any |-> FALSE, n |-> 0, blocks |-> <<>>]
    /\ sh_pc' = "cleared"
    /\ UNCHANGED <<sh_path, sh_reads, sh_runs, ShmRest>>

\* lines 332-338: cmd.spawn succeeds, or fails and the function returns Err
Spawn ==
    /\ sh_pc = "cleared"
    /\ \/ sh_pc' = "running" /\ UNCHANGED sh_runs
       \/ sh_pc' = "ready" /\ sh_runs' = sh_runs + 1
    /\ UNCHANGED <<mmap, sh_path, sh_wrote, sh_reads, ShmRest>>

\* the running target stores a length word and the block ids that fit
TargetWrites ==
    /\ sh_pc = "running" /\ ~sh_wrote.any
    /\ \E n \in ShmLens :
          \E blks \in [1..Min(n, Len(mmap) \div 4 - 1) -> ShmBlockIds] :
             /\ mmap' = target_store(mmap, n, blks)
             /\ sh_wrote' = [any |-> TRUE, n |-> n, blocks |-> blks]
    /\ UNCHANGED <<sh_pc, sh_path, sh_reads, sh_runs, ShmRest>>

\* line 348: wait_with_output returns, the child has exited
Wait ==
    /\ sh_pc = "running"
    /\ sh_pc' = "exited"
    /\ UNCHANGED <<mmap, sh_path, sh_wrote, sh_reads, sh_runs, ShmRest>>

\* lines 367-378: the trace is read from the region
Read ==
    /\ sh_pc = "exited"
    /\ LET d == decode(mmap)
       IN  /\ sh_path' = d.path
           /\ sh_reads' = d.reads
           /\ sh_pc' = IF d.panic THEN "panic" ELSE "ready"
    /\ sh_runs' = sh_runs + 1
    /\ UNCHANGED <<mmap, sh_wrote, ShmRest>>

NextShm == Clear \/ Spawn \/ TargetWrites \/ Wait \/ Read

SpecShm == InitShm /\ [][NextShm]_vars

(***************************************************************************)
(* Seed file names (coverage/mod.rs, seed_post_fix and from_file_name)     *)
(*                                                                         *)
(* A string is the sequence of its characters.                             *)
(***************************************************************************)
DigitChars == <<"0", "1", "2", "3", "4", "5", "6", "7", "8", "9">>

\* `format!("{}", n)` of a usize: its decimal digits
RECURSIVE format_usize(_)
format_usize(n) ==
    IF n < 10 THEN <<DigitChars[n + 1]>>
    ELSE Append(format_usize(n \div 10), DigitChars[(n % 10) + 1])

\* the value of a decimal digit, -1 for any other character
digit_value(c) ==
    IF \E d \in 1..10 : DigitChars[d] = c
    THEN (CHOOSE d \in 1..10 : DigitChars[d] = c) - 1
    ELSE -1

\* the digits of s after the value acc; -1 for Err (a character that is no
\* digit, or a value above usize::MAX)
RECURSIVE parse_digits(_, _)
parse_digits(s, acc) ==
    IF s = <<>> THEN acc
    ELSE LET d == digit_value(Head(s))
         IN  IF d < 0 THEN -1
             ELSE IF acc > (UsizeMax - d) \div 10 THEN -1
             ELSE parse_digits(Tail(s), acc * 10 + d)

\* parse that reads the first digit only
parse_usize_FirstDigit(s) ==
    IF s = <<>> THEN -1 ELSE parse_digits(<<Head(s)>>, 0)

\* `s.parse::<usize>()`: the value, or -1 for Err
parse_usize(s) == IF s = <<>> THEN -1 ELSE parse_digits(s, 0)

\* `Result::unwrap_or(0)`
unwrap_or_0(r) == IF r < 0 THEN 0 ELSE r

\* `s.split(sep).collect()`: the parts of s between the separators
RECURSIVE split_from(_, _, _)
split_from(s, sep, part) ==
    IF s = <<>> THEN <<part>>
    ELSE IF Head(s) = sep THEN <<part>> \o split_from(Tail(s), sep, <<>>)
    ELSE split_from(Tail(s), sep, Append(part, Head(s)))

split(s, sep) == split_from(s, sep, <<>>)

\* the names of the variants in a file name
MetricWords ==
    [NewBlock |-> <<"b", "l", "o", "c", "k">>,
     NewEdge |-> <<"e", "d", "g", "e">>,
     NewPath |-> <<"p", "a", "t", "h">>,
     NoCoverage |-> <<"n", "o", "c", "o", "v">>]

\* CoverageFeedback::seed_post_fix; Old is unreachable!()
seed_post_fix(f) ==
    IF Variant(f) = "Old" THEN [panic |-> TRUE, s |-> <<>>]
    ELSE [panic |-> FALSE,
          s |-> MetricWords[f.tag] \o <<"_">> \o format_usize(f.uniqueness)]

\* CoverageFeedback::from_file_name
from_file_name(seed_file_name) ==
    LET parts == split(seed_file_name, "_")
    IN  IF Len(parts) < 3 THEN [panic |-> TRUE, value |-> NoCoverage(0)]
        ELSE LET cov_type == parts[2]
                 uniqueness == unwrap_or_0(parse_usize(parts[3]))
             IN  IF \E t \in BaseTags : MetricWords[t] = cov_type
                 THEN [panic |-> FALSE,
                       value |-> Old([old |-> 0,
                                      tag |-> CHOOSE t \in BaseTags :
                                                 MetricWords[t] = cov_type,
                                      uniqueness |-> uniqueness])]
                 ELSE [panic |-> TRUE, value |-> NoCoverage(0)]

\* the characters of the prefixes
PrefixChars == {"a", "1", "_"}

NamePrefixes == SeqsUpTo(PrefixChars, MaxPrefixLen)

\* the uniqueness values encoded
NameUniqs == 0..MaxNameUniq \cup {10, 4095, UsizeMax}

\* the feedbacks encoded: every variant, bare or wrapped in Old once
NameFeedbacks ==
    LET bare == {[old |-> 0, tag |-> t, uniqueness |-> u] :
                    t \in BaseTags, u \in NameUniqs}
    IN  bare \cup {Old(f) : f \in bare}

\* a feedback and a prefix for the name of a seed file
InitName ==
    /\ nm_pc = "start"
    /\ nm_prefix \in NamePrefixes
    /\ nm_f \in NameFeedbacks
    /\ nm_name = <<>>
    /\ nm_parsed = NoCoverage(0)
    /\ first_to_lasts = <<>>
    /\ trace = <<>>
    /\ InitMetric /\ InitRun /\ NoCmp /\ NoAgg /\ NoFuzz /\ NoShm
    /\ NoMut /\ NoPar

NameRest ==
    <<metric_vars, run_vars, cmp_vars, agg_vars, fuzz_vars, shm_vars,
      mut_vars, par_vars>>

\* the name of the seed file: the prefix, "_" and seed_post_fix
Encode ==
    /\ nm_pc = "start"
    /\ LET post == seed_post_fix(nm_f)
       IN  IF post.panic
           THEN nm_pc' = "panic" /\ UNCHANGED nm_name
           ELSE /\ nm_name' = nm_prefix \o <<"_">> \o post.s
                /\ nm_pc' = "named"
    /\ UNCHANGED <<nm_prefix, nm_f, nm_parsed, NameRest>>

\* the feedback is read back from the name
Parse ==
    /\ nm_pc = "named"
    /\ LET r == from_file_name(nm_name)
       IN  IF r.panic
           THEN nm_pc' = "panic" /\ UNCHANGED nm_parsed
           ELSE nm_parsed' = r.value /\ nm_pc' = "parsed"
    /\ UNCHANGED <<nm_prefix, nm_f, nm_name, NameRest>>

NextName == Encode \/ Parse

SpecName == InitName /\ [][NextName]_vars

(***************************************************************************)
(* Mutation (fuzzer/mod.rs, mutate)                                        *)
(*                                                                         *)
(* An input is the sequence of its bytes; positions are 0-based as in the  *)
(* source, so the byte at position p is s[p + 1].  mutate(input, strategy) *)
(* is the set of the results over the remaining draws of the generator.    *)
(***************************************************************************)
\* b ^ (1 << bit) on a u8
flip(b, bit) ==
    LET w == 2 ^ bit
    IN  IF (b \div w) % 2 = 1 THEN b - w ELSE b + w

\* result[pos] = byte
set_byte(s, pos, byte) == [i \in 1..Len(s) |-> IF i = pos + 1 THEN byte ELSE s[i]]

\* Vec::drain(start..start + n)
drain(s, start, n) ==
    [i \in 1..(Len(s) - n) |-> IF i <= start THEN s[i] ELSE s[i + n]]

\* Vec::splice(pos..pos, chunk)
splice(s, pos, chunk) ==
    [i \in 1..(Len(s) + Len(chunk)) |->
        IF i <= pos THEN s[i]
        ELSE IF i <= pos + Len(chunk) THEN chunk[i - pos]
        ELSE s[i - Len(chunk)]]

\* the values of rng.gen::<u8>() that are tried
RandomBytes == {0, 255}

\* the values of rng.gen_range(0..100) that are tried: the ends of the four
\* bands
Strategies == {0, 29, 30, 49, 50, 74, 75, 99}

\* lines 443-447: flip one bit of one byte
bit_flips(result) ==
    {set_byte(result, pos, flip(result[pos + 1], bit)) :
        pos \in 0..(Len(result) - 1), bit \in 0..7}

\* lines 448-451: overwrite one byte
overwrites(result) ==
    {set_byte(result, pos, byte) :
        pos \in 0..(Len(result) - 1), byte \in RandomBytes}

\* the deletion without the test of the length
deletions_Always(result) ==
    UNION {{drain(result, start_pos, delete_len) :
                start_pos \in 0..(Len(result) - delete_len)} :
            delete_len \in 1..Min(8, Len(result))}

\* lines 452-459: delete a chunk, only from an input of more than one byte
deletions(result) ==
    IF Len(result) > 1
    THEN UNION {{drain(result, start_pos, delete_len) :
                    start_pos \in 0..(Len(result) - delete_len)} :
                delete_len \in 1..Min(8, Len(result))}
    ELSE {result}

\* lines 460-479: insert a chunk copied from the input or a chunk of one
\* constant byte
insertions(result) ==
    UNION {UNION {
        {splice(result, insert_pos,
                SubSeq(result, src_pos + 1, src_pos + chunk_len)) :
            src_pos \in IF Len(result) >= chunk_len
                        THEN 0..(Len(result) - chunk_len) ELSE {}}
        \cup
        (IF Len(result) >= chunk_len THEN {} ELSE {result})
        \cup
        {splice(result, insert_pos, [i \in 1..chunk_len |-> constant_byte]) :
            constant_byte \in RandomBytes} :
        insert_pos \in 0..Len(result)} :
      chunk_len \in 1..Min(16, Len(result))}

\* Fuzzer::mutate after the file was read: the results it may return for
\* the value drawn for `strategy`
mutate(input, strategy) ==
    IF Len(input) = 0 THEN {input}
    ELSE IF strategy < 30 THEN bit_flips(input)
    ELSE IF strategy < 50 THEN overwrites(input)
    ELSE IF strategy < 75 THEN deletions(input)
    ELSE insertions(input)

\* the inputs mutated: of every length up to MaxInputLen, with pairwise
\* different bytes or with one byte repeated
MutInputs ==
    {[i \in 1..n |-> i] : n \in 0..MaxInputLen}
        \cup {[i \in 1..n |-> 255] : n \in 1..3}

InitMut ==
    /\ mu_pc = "start"
    /\ mu_input \in MutInputs
    /\ mu_strategy = 0
    /\ mu_result = <<>>
    /\ first_to_lasts = <<>>
    /\ trace = <<>>
    /\ InitMetric /\ InitRun /\ NoCmp /\ NoAgg /\ NoFuzz /\ NoShm /\ NoName
    /\ NoPar

MutRest ==
    <<metric_vars, run_vars, cmp_vars, agg_vars, fuzz_vars, shm_vars,
      name_vars, par_vars>>

\* one call of mutate
MutateOnce ==
    /\ mu_pc = "start"
    /\ \E strategy \in Strategies :
          /\ mu_strategy' = strategy
          /\ mu_result' \in mutate(mu_input, strategy)
    /\ mu_pc' = "done"
    /\ UNCHANGED <<mu_input, MutRest>>

NextMut == MutateOnce

SpecMut == InitMut /\ [][NextMut]_vars

(***************************************************************************)
(* Parallel instances (fuzzer/parallel.rs)                                 *)
(*                                                                         *)
(* ParallelFuzzer::new makes one Fuzzer per instance, each of which maps   *)
(* the file create_coverage_shm opens; run gives every instance a thread   *)
(* that locks only the mutex of its own instance, so the executions of     *)
(* different instances interleave.  p_files maps a path to the bytes of    *)
(* the file, which every mapping of it shares.                             *)
(***************************************************************************)
Instances == 1..NumInstances

\* const COVERAGE_SHM_PATH
COVERAGE_SHM_PATH == "/tmp/coverage_shm.bin"

\* the path create_coverage_shm opens for the instance i
coverage_shm_path(i) == COVERAGE_SHM_PATH

\* the size of the region in bytes: the length word and MaxParWords block ids
ParSize == 4 * (MaxParWords + 1)

\* nothing was written by the target of the current execution
NotWritten == [any |-> FALSE, n |-> 0, blocks |-> <<>>]

\* ParallelFuzzer::new: every Fuzzer::new has created, mapped and zeroed its
\* file
InitPar ==
    /\ p_files = [f \in {coverage_shm_path(i) : i \in Instances} |->
                     [b \in 1..ParSize |-> 0]]
    /\ p_pc = [i \in Instances |-> "ready"]
    /\ p_path = [i \in Instances |-> <<>>]
    /\ p_wrote = [i \in Instances |-> NotWritten]
    /\ p_runs = [i \in Instances |-> 0]
    /\ first_to_lasts = <<>>
    /\ trace = <<>>
    /\ InitMetric /\ InitRun /\ NoCmp /\ NoAgg /\ NoFuzz /\ NoShm /\ NoName
    /\ NoMut

ParRest ==
    <<metric_vars, run_vars, cmp_vars, agg_vars, fuzz_vars, shm_vars,
      name_vars, mut_vars>>

\* the instance i clears the length word of the region it maps
ParClear(i) ==
    /\ p_pc[i] = "ready" /\ p_runs[i] < MaxParRuns
    /\ p_files' = [p_files EXCEPT ![coverage_shm_path(i)] = clear_length(@)]
    /\ p_wrote' = [p_wrote EXCEPT ![i] = NotWritten]
    /\ p_pc' = [p_pc EXCEPT ![i] = "cleared"]
    /\ UNCHANGED <<p_path, p_runs, ParRest>>

\* cmd.spawn of the instance i succeeds, or fails and the function returns
ParSpawn(i) ==
    /\ p_pc[i] = "cleared"
    /\ \/ p_pc' = [p_pc EXCEPT ![i] = "running"] /\ UNCHANGED p_runs
       \/ /\ p_pc' = [p_pc EXCEPT ![i] = "ready"]
          /\ p_runs' = [p_runs EXCEPT ![i] = @ + 1]
    /\ UNCHANGED <<p_files, p_path, p_wrote, ParRest>>

\* the target of the instance i stores a length word and as many block ids
\* in the region its parent maps
ParTargetWrites(i) ==
    /\ p_pc[i] = "running" /\ ~p_wrote[i].any
    /\ \E n \in 0..MaxParWords : \E blks \in [1..n -> ShmBlockIds] :
          /\ p_files' = [p_files EXCEPT
                            ![coverage_shm_path(i)] = target_store(@, n, blks)]
          /\ p_wrote' = [p_wrote EXCEPT
                            ![i] = [any |-> TRUE, n |-> n, blocks |-> blks]]
    /\ UNCHANGED <<p_pc, p_path, p_runs, ParRest>>

\* wait_with_output of the instance i returns
ParWait(i) ==
    /\ p_pc[i] = "running"
    /\ p_pc' = [p_pc EXCEPT ![i] = "exited"]
    /\ UNCHANGED <<p_files, p_path, p_wrote, p_runs, ParRest>>

\* the instance i reads the trace from the region it maps
ParRead(i) ==
    /\ p_pc[i] = "exited"
    /\ LET d == decode(p_files[coverage_shm_path(i)])
       IN  /\ p_path' = [p_path EXCEPT ![i] = d.path]
           /\ p_pc' = [p_pc EXCEPT ![i] = IF d.panic THEN "panic" ELSE "ready"]
    /\ p_runs' = [p_runs EXCEPT ![i] = @ + 1]
    /\ UNCHANGED <<p_files, p_wrote, ParRest>>

NextPar ==
    \E i \in Instances :
        ParClear(i) \/ ParSpawn(i) \/ ParTargetWrites(i) \/ ParWait(i)
            \/ ParRead(i)

SpecPar == InitPar /\ [][NextPar]_vars

(***************************************************************************)
(* Properties of the reducer                                               *)
(***************************************************************************)
\* the trace is e b^n x with n >= K in a function e with exit set {x}, where
\* b is neither an entry nor an exit
IsLoopTrace ==
    /\ Len(trace) >= K + 2
    /\ trace = LoopTrace(trace[1], trace[2], Len(trace) - 2, Last(trace))
    /\ trace[1] \in DOMAIN first_to_lasts
    /\ first_to_lasts[trace[1]] = {Last(trace)}
    /\ Last(trace) \notin DOMAIN first_to_lasts
    /\ trace[2] \notin DOMAIN first_to_lasts
    /\ trace[2] # Last(trace)

\* C1: loop collapse.  For a function e with exit set {x} and a block b that
\* is neither an entry nor an exit, the trace e b^n x with n >= K reduces to
\* e b^K x: that is the only path hashed, and its digest is the only digest
\* of function e (so [1,2,2,2,3] leaves exactly the digest of [1,2,2,3]).
C1_LoopCollapse ==
    (pc = "done" /\ IsLoopTrace) =>
        LET e == trace[1]
            reduced == LoopTrace(e, trace[2], K, Last(trace))
        IN  /\ recorded = {<<e, reduced>>}
            /\ coverage = (e :> {compute_hash(reduced)})
            /\ total_cov = 1

C1_Witness ==
    /\ pc = "done"
    /\ first_to_lasts = (1 :> {3})
    /\ trace = <<1, 2, 2, 2, 3>>
    /\ IsLoopTrace
    /\ coverage[1] = {compute_hash(<<1, 2, 2, 3>>)}

\* the iteration counts that survive the reduction of e (b c^ns[i])* x: each
\* clipped to K, and of more than K outer iterations the first K-1 and the last
Clip(ns) ==
    LET kept == IF Len(ns) <= K THEN ns
                ELSE SubSeq(ns, 1, K - 1) \o <<Last(ns)>>
    IN  [i \in 1..Len(kept) |-> Min(kept[i], K)]

\* the longest reduced path of the pattern e (b c*)* x: e, K times b followed
\* by K times c, and x
NestedBound == 2 + K * (1 + K)

\* C2: nested bound.  In the function 1 with exit 4, while and after a trace
\* 1 (2 3^n_i)^m 4 is reduced the reduced buffer never holds more than
\* NestedBound blocks, whatever m and the n_i are, and the path hashed is
\* 1 (2 3^min(n_i,K))* 4 over the surviving iterations: every run of 3 is
\* cut to K and outer iterations beyond K are elided.
C2_NestedBound ==
    (first_to_lasts = (1 :> {4}) /\ trace \in NestedTraces /\ pc \in {"loop", "done"}) =>
        /\ \A i \in 1..Len(stack) : Len(stack[i].reduced_path) <= NestedBound
        /\ \A r \in recorded : Len(r[2]) <= NestedBound
        /\ pc = "done" =>
              \A ns \in SeqsUpTo(0..MaxInner, MaxOuter) :
                  trace = NestedTrace(1, 2, 3, ns, 4) =>
                      recorded = {<<1, NestedTrace(1, 2, 3, Clip(ns), 4)>>}

C2_Witness ==
    /\ pc = "done"
    /\ first_to_lasts = (1 :> {4})
    /\ trace = <<1, 2, 3, 3, 3, 2, 3, 3, 3, 2, 3, 3, 3, 3, 4>>
    /\ trace \in NestedTraces
    /\ recorded = {<<1, <<1, 2, 3, 3, 2, 3, 3, 4>>>>}

\* the number of positions of T that hold block b
Occurrences(T, b) == Cardinality({i \in 1..Len(T) : T[i] = b})

\* T is a complete call-free trace of one function: it starts at an entry,
\* holds no other entry, and its last block is the only exit in it
IsCompleteCallFree(T) ==
    /\ T # <<>>
    /\ T[1] \in DOMAIN first_to_lasts
    /\ \A i \in 2..Len(T) : T[i] \notin DOMAIN first_to_lasts
    /\ Last(T) \in first_to_lasts[T[1]]
    /\ \A i \in 1..(Len(T) - 1) : T[i] \notin first_to_lasts[T[1]]

\* no loop of T runs more than K iterations: no block is entered more than K
\* times, or T is e (b c^n_i)^m x with m <= K and every n_i <= K
IsCanonical(T) ==
    /\ IsCompleteCallFree(T)
    /\ \/ \A i \in 1..Len(T) : Occurrences(T, T[i]) <= K
       \/ /\ Len(T) >= 2
          /\ \E c \in (1..NumBlocks) \ {T[2]} : \E ns \in SeqsUpTo(0..K, K) :
                T = NestedTrace(T[1], T[2], c, ns, Last(T))

\* C3: idempotence on canonical traces.  A complete call-free trace in which
\* no loop runs more than K iterations is reduced to itself, and when the
\* metric observes it a second time it returns NoCoverage.
C3_CanonicalFixed ==
    (pc = "done" /\ IsCanonical(trace)) =>
        /\ recorded = {<<trace[1], trace>>}
        /\ nobs >= 2 => Variant(feedback) = "NoCoverage"

C3_Witness ==
    /\ pc = "done"
    /\ nobs = 2
    /\ first_to_lasts = (1 :> {4})
    /\ trace = <<1, 2, 3, 2, 3, 4>>
    /\ IsCanonical(trace)
    /\ recorded = {<<1, <<1, 2, 3, 2, 3, 4>>>>}
    /\ Variant(feedback) = "NoCoverage"

\* the number of blocks read so far
Pos == Len(trace) - Len(path)

\* C4: call handling.  (a) While a callee runs, the last block of its
\* caller's reduced buffer is the callee's entry, which is the block of the
\* trace at which the callee was invoked.  (b) An invocation that returns on
\* an exit has read exactly the span from its entry to that exit: the cursor
\* then stands after the exit, and its own reduced path, which begins with its
\* entry and ends with the exit, has been inserted under its entry.  (c) For
\* [1,1,2,2] with function 1 (exit {2}) calling itself the inner invocation
\* records [1,2], the outer one [1,1,2], and function 1 has two digests.
C4_CallerFrame ==
    \A i \in 2..Len(stack) :
        /\ Last(stack[i - 1].reduced_path) = stack[i].first
        /\ trace[stack[i].start + 1] = stack[i].first
        /\ stack[i].reduced_path[1] = stack[i].first

C4_ExitStep ==
    (pc = "loop" /\ stack # <<>> /\ path # <<>> /\ Len(stack') < Len(stack)
        /\ pc' = "loop") =>
        LET callee == stack[Len(stack)]
            own == Append(callee.reduced_path, Head(path))
        IN  /\ Head(path) \in callee.lasts
            /\ path' = Tail(path)
            /\ trace[callee.start + 1] = callee.first
            /\ Len(stack') = Len(stack) - 1
            /\ <<callee.first, own>> \in recorded'
            /\ compute_hash(own) \in coverage'[callee.first]

C4_Scenario ==
    (pc = "done" /\ first_to_lasts = (1 :> {2}) /\ trace = <<1, 1, 2, 2>>) =>
        /\ recorded = {<<1, <<1, 2>>>>, <<1, <<1, 1, 2>>>>}
        /\ coverage = (1 :> {compute_hash(<<1, 2>>), compute_hash(<<1, 1, 2>>)})
        /\ Cardinality(coverage[1]) = 2

\* C4: call handling, the three parts above: (a) and (c) in every state, (b)
\* on every step in which an invocation returns on an exit.
C4_CallHandling ==
    /\ [](C4_CallerFrame /\ C4_Scenario)
    /\ [][C4_ExitStep]_vars

C4_Witness ==
    /\ pc = "done"
    /\ first_to_lasts = (1 :> {2})
    /\ trace = <<1, 1, 2, 2>>
    /\ recorded = {<<1, <<1, 2>>>>, <<1, <<1, 1, 2>>>>}
    /\ Cardinality(coverage[1]) = 2

\* C5: cross-function isolation.  No step taken while a callee is active,
\* the callee's return included, changes the loop_stack or the reduced buffer
\* of any of its callers.
C5_Isolation ==
    [][\A i \in 1..(Len(stack) - 1) :
          i <= Len(stack') =>
              /\ stack'[i].loop_stack = stack[i].loop_stack
              /\ stack'[i].reduced_path = stack[i].reduced_path]_vars

\* the callee of a caller with a non-empty loop_stack has collapsed a loop of
\* a block that is also on the caller's loop_stack
C5_Witness ==
    /\ Len(stack) = 2
    /\ \E b \in DOMAIN stack[1].loop_stack :
          /\ b \in DOMAIN stack[2].loop_stack
          /\ stack[2].loop_stack[b][1] = K
          /\ stack[1].loop_stack[b][1] = 1

(***************************************************************************)
(* Properties of the per-function path metric                              *)
(***************************************************************************)
\* C6: new-path detection covers every function instance.  Whenever an
\* observation inserted a digest that was not yet known, under any function,
\* the metric returns a new-* feedback for that observation, never NoCoverage.
C6_NewPathDetected ==
    (pc = "done" /\ fresh # {}) => new_cov(feedback)

\* C7: the metric returns the highest-ranking applicable feedback: the block
\* feedback if it is NewBlock, else the edge feedback if it is NewEdge, else
\* NewPath with the edge uniqueness if the reducer saw a new digest, else
\* NoCoverage with the edge uniqueness.
C7_HighestRanking ==
    pc = "done" =>
        feedback =
            IF Variant(block_feedback) = "NewBlock" THEN block_feedback
            ELSE IF Variant(edge_feedback) = "NewEdge" THEN edge_feedback
            ELSE IF fresh # {} THEN NewPath(edge_feedback.uniqueness)
            ELSE NoCoverage(edge_feedback.uniqueness)

\* the first observation of [1,2,2,2,3] by a fresh metric for the function 1
\* with exit {3}
IsScenario1 ==
    /\ pc = "done"
    /\ nobs = 1
    /\ first_to_lasts = (1 :> {3})
    /\ trace = <<1, 2, 2, 2, 3>>

\* C8 as stated: scenario 1 returns NewPath with uniqueness 0.
C8_Scenario1NewPath == IsScenario1 => feedback = NewPath(0)

\* C8 as amended: scenario 1 returns NewBlock with uniqueness 1, the three
\* blocks being new to the embedded block metric, and function 1 then holds
\* exactly the digest of [1,2,2,3].
C8_Scenario1NewBlock ==
    IsScenario1 =>
        /\ feedback = NewBlock(1)
        /\ coverage = (1 :> {compute_hash(<<1, 2, 2, 3>>)})

C8_Witness == IsScenario1 /\ feedback = NewBlock(1) /\ fresh # {}

(***************************************************************************)
(* Properties of the feedback ordering                                     *)
(***************************************************************************)
Reverse(o) ==
    CASE o = "Less" -> "Greater" [] o = "Greater" -> "Less" [] OTHER -> o

Le(o) == o \in {"Less", "Equal"}

\* C9: the comparison is a total order: every pair is comparable, cmp(a,b)
\* is the reverse of cmp(b,a), and a <= b and b <= c imply a <= c.
C9_TotalOrder ==
    cmp_pc = "compared" =>
        /\ ab \in {"Less", "Equal", "Greater"}
        /\ ab = Reverse(ba)
        /\ (Le(ab) /\ Le(bc)) => Le(ac)

\* C10: two values of different variants are ordered by variant rank
\* NewBlock > NewEdge > NewPath > NoCoverage > Old, whatever their uniqueness
\* and in whichever order they are given.
C10_RankOrder ==
    (cmp_pc = "compared" /\ Variant(fa) # Variant(fb)) =>
        /\ ab = usize_cmp(priority(fa), priority(fb))
        /\ ba = usize_cmp(priority(fb), priority(fa))

\* C11: of two values of the same variant the one with the lower uniqueness
\* is the greater and equal uniqueness makes them equal; two Old values
\* compare as the values they wrap compare.
C11_SameVariant ==
    (cmp_pc = "compared" /\ Variant(fa) = Variant(fb)) =>
        IF Variant(fa) = "Old"
        THEN /\ ab = cmp(Inner(fa), Inner(fb))
             /\ ba = cmp(Inner(fb), Inner(fa))
        ELSE /\ (fa.uniqueness < fb.uniqueness) => (ab = "Greater" /\ ba = "Less")
             /\ (fa.uniqueness = fb.uniqueness) => (ab = "Equal" /\ ba = "Equal")
             /\ (fa.uniqueness > fb.uniqueness) => (ab = "Less" /\ ba = "Greater")

C11_Witness ==
    /\ cmp_pc = "compared"
    /\ fa = NewEdge(1) /\ fb = NewEdge(2) /\ ab = "Greater"
    /\ fc = Old(NewPath(2)) /\ bc = "Greater"

(***************************************************************************)
(* Properties of the metrics behind the aggregator                         *)
(***************************************************************************)
\* the sum of f[x] over the elements x of S
RECURSIVE Sum(_, _)
Sum(f, S) ==
    IF S = {} THEN 0
    ELSE LET x == CHOOSE y \in S : TRUE IN f[x] + Sum(f, S \ {x})

\* the number of occurrences of block b in all the traces observed so far
TotalOccurrences(b) ==
    Sum([t \in DOMAIN observed |-> observed[t] * Occurrences(t, b)],
        DOMAIN observed)

\* the blocks that can occur in a trace given to the aggregator
AggBlockIds == UNION {{t[i] : i \in 1..Len(t)} : t \in AggTraces}

\* C12: after any sequence of observations the hit count of every block in
\* the block metric is the number of its occurrences in all the traces
\* observed, and a block has no entry exactly when it never occurred.
C12_HitCounts ==
    agg_pc = "ready" =>
        \A b \in AggBlockIds :
            IF TotalOccurrences(b) = 0
            THEN b \notin DOMAIN metrics["block"]
            ELSE /\ b \in DOMAIN metrics["block"]
                 /\ metrics["block"][b] = TotalOccurrences(b)

\* a block seen twice in one trace and once in another, and a block never
\* seen
C12_Witness ==
    /\ agg_pc = "ready" /\ agg_nobs = 2
    /\ observed = (<<1, 1>> :> 1) @@ (<<1>> :> 1)
    /\ metrics["block"] = (1 :> 3)

\* the least element of the set S of numbers, the sentinel if S is empty
MinOf(S) == IF S = {} THEN UsizeMax ELSE CHOOSE m \in S : \A c \in S : m <= c

BlocksOf(t) == {t[i] : i \in 1..Len(t)}

CountIn(table, x) == IF x \in DOMAIN table THEN table[x]
                    ELSE 0

\* an observation by the aggregator has just completed
Observed == agg_pc' = "ready" /\ agg_nobs' = agg_nobs + 1

\* the variant the block metric returns: NewBlock exactly when some block of
\* the trace had no entry before the call
C13_Variant ==
    Variant(cov'["block"]) =
        IF \E b \in BlocksOf(agg_trace') : b \notin DOMAIN metrics["block"]
        THEN "NewBlock" ELSE "NoCoverage"

\* C13 as stated: NewBlock exactly when some block of the trace had no entry
\* before the call, and the uniqueness is the least hit count, after the whole
\* trace was applied, of the blocks of the trace.
C13_PostUpdateMin ==
    [][Observed =>
         /\ C13_Variant
         /\ cov'["block"].uniqueness =
                MinOf({metrics'["block"][b] : b \in BlocksOf(agg_trace')})]_vars

\* C13 amended: the uniqueness is the least count seen at a visit, that is
\* the least, over the blocks of the trace, of the hit count before the call
\* plus one.
C13_RunningMin ==
    [][Observed =>
         /\ C13_Variant
         /\ cov'["block"].uniqueness =
                MinOf({CountIn(metrics["block"], b) + 1 : b \in BlocksOf(agg_trace')})]_vars

\* a new block that occurs twice in its first trace
C13_Witness ==
    /\ agg_pc = "ready" /\ agg_nobs = 1
    /\ agg_trace = <<1, 1>>
    /\ metrics["block"] = (1 :> 2)
    /\ cov["block"] = NewBlock(1)

\* the second of the first two observations repeats the first
FirstRepeated == agg_nobs = 1 /\ Observed /\ agg_trace' = agg_trace

\* C14 as stated: whatever the trace, when fresh block, edge and raw-path
\* metrics observe it twice in a row, the first call returns NewBlock, NewEdge
\* and NewPath respectively and the second returns NoCoverage.
C14_Idempotence ==
    [][FirstRepeated =>
         /\ Variant(cov["block"]) = "NewBlock"
         /\ Variant(cov["edge"]) = "NewEdge"
         /\ Variant(cov["rawpath"]) = "NewPath"
         /\ \A n \in {"block", "edge", "rawpath"} :
                Variant(cov'[n]) = "NoCoverage"]_vars

\* C14 amended: the first call returns NewBlock and NewPath when the trace is
\* not empty and NewEdge when it has at least two blocks; a metric with
\* nothing to record in the trace returns NoCoverage at once.
C14_IdempotenceNonEmpty ==
    [][FirstRepeated =>
         /\ Variant(cov["block"]) =
                IF agg_trace # <<>> THEN "NewBlock" ELSE "NoCoverage"
         /\ Variant(cov["edge"]) =
                IF Len(agg_trace) >= 2 THEN "NewEdge" ELSE "NoCoverage"
         /\ agg_trace # <<>> => Variant(cov["rawpath"]) = "NewPath"
         /\ Variant(cov'["block"]) = "NoCoverage"
         /\ Variant(cov'["edge"]) = "NoCoverage"
         /\ agg_trace # <<>> => Variant(cov'["rawpath"]) = "NoCoverage"]_vars

\* a trace of two blocks observed twice by fresh metrics
C14_Witness ==
    /\ agg_pc = "ready" /\ agg_nobs = 2
    /\ observed = (<<1, 2>> :> 2)
    /\ cov["block"] = NoCoverage(2)
    /\ Variant(cov["edge"]) = "NoCoverage"
    /\ cov["rawpath"] = NoCoverage(0)

\* C15: observing the empty trace returns NoCoverage with the sentinel
\* uniqueness from every metric (block, edge, raw-path, per-function path),
\* whatever the metric has seen, and changes no metric state.
C15_EmptyTrace ==
    [][(Observed /\ agg_trace' = <<>>) =>
         /\ \A n \in DOMAIN metrics : cov'[n] = NoCoverage(UsizeMax)
         /\ metrics' = metrics]_vars

\* the keys the edge metric gained in the observation just made
AddedEdges == DOMAIN metrics'["edge"] \ DOMAIN metrics["edge"]

\* C16: an observation of T adds at most len(T) - 1 keys to the edge metric,
\* none when T has at most one block, and every key it adds is a pair of
\* adjacent blocks of T.
C16_EdgeKeys ==
    [][Observed =>
         /\ Len(agg_trace') <= 1 => AddedEdges = {}
         /\ Len(agg_trace') >= 1 => Cardinality(AddedEdges) <= Len(agg_trace') - 1
         /\ \A e \in AddedEdges :
                \E i \in 1..(Len(agg_trace') - 1) :
                    e = <<agg_trace'[i], agg_trace'[i + 1]>>]_vars

\* the second trace added the one edge the first had not
C16_Witness ==
    /\ agg_pc = "ready" /\ agg_nobs = 2
    /\ agg_trace = <<1, 2>>
    /\ observed = (<<1, 1>> :> 1) @@ (<<1, 2>> :> 1)
    /\ metrics["edge"] = (<<1, 1>> :> 1) @@ (<<1, 2>> :> 1)

\* every key of the hit-count table a is a key of b with at least its count
CountsGrow(a, b) ==
    /\ DOMAIN a \subseteq DOMAIN b
    /\ \A x \in DOMAIN a : a[x] <= b[x]

\* every function of a has in b at least the digests it has in a
DigestsGrow(a, b) ==
    /\ DOMAIN a \subseteq DOMAIN b
    /\ \A f \in DOMAIN a : a[f] \subseteq b[f]

MetricsGrow ==
    /\ CountsGrow(metrics["block"], metrics'["block"])
    /\ CountsGrow(metrics["edge"], metrics'["edge"])
    /\ metrics["rawpath"] \subseteq metrics'["rawpath"]
    /\ CountsGrow(metrics["pfp"].blocks, metrics'["pfp"].blocks)
    /\ CountsGrow(metrics["pfp"].edges, metrics'["pfp"].edges)
    /\ DigestsGrow(metrics["pfp"].coverage, metrics'["pfp"].coverage)
    /\ metrics["pfp"].total_cov <= metrics'["pfp"].total_cov

MetricsEmpty ==
    /\ metrics["block"] = <<>>
    /\ metrics["edge"] = <<>>
    /\ metrics["rawpath"] = {}
    /\ metrics["pfp"].blocks = <<>>
    /\ metrics["pfp"].edges = <<>>
    /\ metrics["pfp"].coverage = <<>>
    /\ metrics["pfp"].total_cov = 0

\* C17: every metric starts empty, and no observation removes a recorded
\* key (block, edge, digest) or lowers a hit count or total_cov.
C17_OnlyGrows ==
    /\ [](agg_nobs = 0 => MetricsEmpty)
    /\ [][MetricsGrow]_vars

\* a function that gained a second digest in the second observation
C17_Witness ==
    /\ agg_pc = "ready" /\ agg_nobs = 2
    /\ observed = (<<1>> :> 1) @@ (<<1, 2>> :> 1)
    /\ metrics["pfp"].first_to_lasts = (1 :> {2})
    /\ metrics["pfp"].coverage =
          (1 :> {compute_hash(<<1>>), compute_hash(<<1, 2>>)})
    /\ metrics["pfp"].total_cov = 2

(***************************************************************************)
(* Properties of the fuzzing loop                                          *)
(***************************************************************************)
\* an execution of the target has just been handled
Executed == total_executions' = total_executions + 1

\* of two saved inputs the one whose best used feedback ranks higher was not
\* enqueued at a lower priority
RankOrder ==
    \A f, g \in DOMAIN enqueued :
        enqueued[f].rank > enqueued[g].rank =>
            enqueued[f].priority >= enqueued[g].priority

\* C18: an input is enqueued with the greatest bucket rank (NewBlock 5,
\* NewEdge 4, NewPath 3, NoCoverage 2, Old 1) of the feedbacks of the metrics
\* in use_cov; so of two saved inputs the one whose best used feedback ranks
\* higher was not enqueued at a lower priority.
C18_BucketRank ==
    /\ [][Executed =>
            \A tc \in queue' \ queue :
                tc.priority = BestUsed(use_coverage, cov')]_vars
    /\ []RankOrder

\* the aggregator has just observed the trace of an execution
Aggregated == agg_nobs' = agg_nobs + 1

\* some metric in use_cov returned new coverage for the execution just made
Triggered ==
    Aggregated /\ \E n \in use_coverage \cap DOMAIN cov' : new_cov(cov'[n])

\* C19: while loading seeds and while draining a level, the input just run
\* is written to the queue directory and pushed on the heap exactly when a
\* metric in use_cov returned new coverage; otherwise (whatever the other
\* metrics returned) neither the directory nor the heap changes.  A failed
\* write of the file ends the run instead.
C19_SaveIffTriggered ==
    [][Executed =>
         /\ (queue_dir' # queue_dir \/ queue' # queue) => Triggered
         /\ (Triggered /\ fz_pc' # "failed") =>
                \E f \in queue_dir' \ queue_dir :
                    /\ queue_dir' = queue_dir \cup {f}
                    /\ \E tc \in queue' \ queue :
                          /\ tc.filename = f
                          /\ queue' = queue \cup {tc}
         /\ ~Triggered => (queue_dir' = queue_dir /\ queue' = queue)]_vars

\* the first seed was saved for its new edge; the second was discarded
\* although the raw-path and per-function metrics, not in use, saw a new path
C19_Witness ==
    /\ use_coverage = {"edge"} /\ fz_pc = "seeds"
    /\ total_executions = 2 /\ agg_nobs = 2
    /\ agg_trace = <<1>>
    /\ cov["rawpath"] = NewPath(0) /\ new_cov(cov["pfp"])
    /\ queue_dir = {<<"id", 0, "+cov">>}
    /\ queue = {[filename |-> <<"id", 0, "+cov">>, priority |-> 90]}
    /\ next_id = 1

\* fuzz_one_level has just popped a test case
Popped == fz_pc = "pop" /\ fz_pc' = "mutate"

\* C20: while a level is drained the test case popped has a priority at
\* least that of every test case left in the heap, and between two pops there
\* is exactly one mutation and at most one execution of the target.
C20_PopOrder ==
    /\ [][Popped => \A o \in queue' : test_case'.priority >= o.priority]_vars
    /\ [](/\ muts <= 1
          /\ execs <= 1
          /\ execs = 1 => muts = 1
          /\ fz_pc = "run" => (muts = 1 /\ execs = 0)
          /\ (fz_pc = "pop" /\ test_case # <<>>) => muts = 1)

\* the test case of priority 90 was popped before the one of priority 20,
\* mutated once and run once
C20_Witness ==
    /\ fz_pc = "pop" /\ total_executions = 3
    /\ test_case.priority = 90
    /\ \E o \in queue : o.priority = 20
    /\ muts = 1 /\ execs = 1

\* C21: the level changes only in a rescan, which happens only when the heap
\* is empty; the rescan pushes exactly one test case of priority 0 for every
\* file of the queue directory, adds exactly 1 to the level and goes back to
\* draining; no other step pushes a test case of priority 0.
C21_Rescan ==
    /\ [][level' # level =>
            /\ fz_pc = "pop" /\ queue = {}
            /\ \A f \in queue_dir :
                   Cardinality({tc \in queue' : tc.filename = f}) = 1
            /\ \A tc \in queue' : tc.filename \in queue_dir /\ tc.priority = 0
            /\ level' = level + 1
            /\ fz_pc' = "pop"
            /\ queue_dir' = queue_dir]_vars
    /\ [][(\E tc \in queue' \ queue : tc.priority = 0) => level' # level]_vars

\* after the first rescan the two saved inputs are back in the heap
C21_Witness ==
    /\ fz_pc = "pop" /\ level = 1
    /\ Cardinality(queue_dir) = 2
    /\ queue = {[filename |-> f, priority |-> 0] : f \in queue_dir}

\* the target of the execution just made was terminated by signal 11, 6 or 7
CrashedNow == status' \in Statuses /\ signalled(status') /\ status'[2] \in CrashSignals

\* C22: an execution killed by signal 11, 6 or 7 writes a crash file and
\* increments the crash counter if and only if the last block of its trace
\* was not recorded by an earlier crash; an execution that ends otherwise
\* (another signal, an exit code) writes no crash file
C22_CrashDedup ==
    [][Executed =>
        /\ crash_count' \in {crash_count, crash_count + 1}
        /\ crash_count' = crash_count + 1 =>
              /\ CrashedNow
              /\ crash_filename(next_id, status'[2]) \in crashes_dir'
              /\ \E b \in exit_blocks' \ exit_blocks :
                    /\ exit_blocks' = exit_blocks \cup {b}
                    /\ Aggregated => b = Last(agg_trace')
        /\ crash_count' = crash_count => crashes_dir' = crashes_dir
        /\ (CrashedNow /\ Aggregated) =>
              (crash_count' = crash_count + 1 <=> Last(agg_trace') \notin exit_blocks)
        /\ ~CrashedNow =>
              UNCHANGED <<crashes_dir, crash_count, exit_blocks>>]_vars

\* the third execution is a crash that ends at the block of the first crash:
\* the only crash file is the one of the first crash
C22_Witness ==
    /\ status = <<"signal", 11>>
    /\ agg_nobs = 3
    /\ Last(agg_trace) \in exit_blocks
    /\ crash_count = 1
    /\ next_id = 2
    /\ crashes_dir = {crash_filename(0, 11)}

\* C23: the file of a newly seen crash carries an id larger than the id of
\* every crash file written before, so it is a new name of the crashes
\* directory and overwrites no earlier crash file
C23_FreshCrashName ==
    [][crash_count' = crash_count + 1 =>
        /\ \A f \in crashes_dir : f[2] < next_id
        /\ crash_filename(next_id, status'[2]) \notin crashes_dir]_vars

\* C25: when the target cannot be spawned or its input cannot be written,
\* no metric observes a trace, nothing is saved to the queue directory or
\* pushed on the queue, and the loop goes on with the next test case
C25_TargetFailureLocal ==
    [][(Executed /\ status' = <<"error">>) =>
        /\ UNCHANGED <<metrics, cov, agg_nobs, agg_calls>>
        /\ UNCHANGED <<queue, queue_dir, next_id, new_coverage_count>>
        /\ fz_pc' = IF fz_pc = "run" THEN "pop" ELSE "seeds"]_vars

\* the execution of a popped test case failed after an earlier execution had
\* been observed, and the queue holds the next test case
C25_Witness ==
    /\ status = <<"error">>
    /\ fz_pc = "pop" /\ execs = 1
    /\ agg_nobs >= 1
    /\ queue # {}

\* C26: an I/O error in the processing of one execution of the fuzz loop
\* (such as a failed write of the new queue file) does not end the run: the
\* loop goes on
C26_LoopGoesOn ==
    [][fz_pc = "run" => fz_pc' # "failed"]_vars

\* C27: one observation of the aggregator calls update_from_path of every
\* metric it owns exactly once, in the order of insertion and on the same
\* trace, whatever the other metrics return, and maps the name of every
\* metric to the feedback of that metric
C27_EveryMetricOnce ==
    [][Observed =>
        /\ agg_calls' = [i \in 1..Len(coverage_types) |->
                            <<coverage_types[i], agg_trace'>>]
        /\ DOMAIN cov' = {coverage_types[i] : i \in 1..Len(coverage_types)}
        /\ \A n \in DOMAIN cov' :
              LET updated == metric_update_from_path(n, metrics[n], agg_trace')
              IN  /\ cov'[n] = updated.feedback
                  /\ metrics'[n] = updated.state]_vars

\* a second observation, of an aggregator that holds pfp first, in which
\* one metric reports new coverage and another does not
C27_Witness ==
    /\ agg_nobs = 2
    /\ coverage_types[1] = "pfp"
    /\ Len(agg_calls) = 4
    /\ \E m, n \in DOMAIN cov : new_cov(cov[m]) /\ ~new_cov(cov[n])

\* the innermost invocation of the reducer finds the cursor empty
PartialStep == pc = "loop" /\ stack # <<>> /\ path = <<>> /\ stack' # stack

\* C29: when the trace ends before an exit block of the invocation being
\* reduced, the buffer reduced so far is hashed and inserted into the digest
\* set of the entry of that invocation, and the invocation returns normally
C29_PartialContributes ==
    [][PartialStep =>
        LET top == stack[Len(stack)]
        IN  /\ top.reduced_path[1] = top.first
            /\ top.first \in DOMAIN coverage'
            /\ compute_hash(top.reduced_path) \in coverage'[top.first]
            /\ \A f \in DOMAIN coverage' \ {top.first} :
                  f \in DOMAIN coverage /\ coverage'[f] = coverage[f]
            /\ \A f \in DOMAIN coverage : coverage[f] \subseteq coverage'[f]
            /\ Len(stack') = Len(stack) - 1
            /\ pc' = "loop"]_vars

\* an observation is over in which the digest of a buffer of three or more
\* blocks that does not end with an exit of its function was inserted
C29_Witness ==
    /\ pc = "done"
    /\ \E key \in recorded :
          /\ Len(key[2]) >= 3
          /\ Last(key[2]) \notin first_to_lasts[key[1]]
          /\ compute_hash(key[2]) \in coverage[key[1]]

\* the length word of the region
LengthWord == from_ne_bytes(SubSeq(mmap, 1, 4))

\* capacity: the size of the region in 32-bit words
Capacity == Len(mmap) \div 4

\* the trace is read from the region
ReadStep == sh_pc = "exited" /\ sh_pc' # "exited"

\* C24: for every value N of the length word the reader returns exactly
\* min(N, capacity - 1) block ids in the order of the buffer, every read
\* lies inside the mapped region and an oversized N causes no failure
C24_DecodeClamps ==
    [][ReadStep =>
        /\ sh_pc' = "ready"
        /\ Len(sh_path') = Min(LengthWord, Capacity - 1)
        /\ \A i \in 1..Len(sh_path') :
              sh_path'[i] = from_ne_bytes(SubSeq(mmap, 4 * i + 1, 4 * i + 4))
        /\ sh_wrote.any => sh_path' = sh_wrote.blocks
        /\ sh_reads' \subseteq 0..(Len(mmap) - 1)
        /\ sh_reads' = 0..(4 * Len(sh_path') + 3)]_vars

\* an oversized length word was read from a region of 11 bytes or more whose
\* size is not a multiple of 4: every block id that fits was returned
C24_Witness ==
    /\ sh_pc = "ready" /\ sh_runs >= 1
    /\ Len(mmap) % 4 # 0
    /\ sh_wrote.any /\ sh_wrote.n > Capacity - 1
    /\ Len(sh_path) = Capacity - 1
    /\ \E i, j \in 1..Len(sh_path) : sh_path[i] # sh_path[j]

\* C30: the length word is 0 when the target is spawned and the region is
\* read only after the child has exited, so the trace of an execution holds
\* the blocks the target stored in that execution and nothing else: a target
\* that writes nothing yields the empty trace
C30_NoLeftover ==
    /\ [][sh_pc' = "running" =>
            /\ sh_pc \in {"cleared", "running"}
            /\ sh_pc = "cleared" => LengthWord = 0 /\ mmap' = mmap]_vars
    /\ [][(sh_path' # sh_path \/ sh_reads' # sh_reads) => sh_pc = "exited"]_vars
    /\ [][ReadStep =>
            /\ sh_path' = sh_wrote.blocks
            /\ ~sh_wrote.any => sh_path' = <<>>]_vars

\* the second execution wrote nothing and its trace is empty, while the
\* region still holds the length and a block of the first execution's tail
C30_Witness ==
    /\ sh_pc = "ready" /\ sh_runs = 2
    /\ ~sh_wrote.any
    /\ sh_path = <<>>
    /\ Len(mmap) >= 8 /\ from_ne_bytes(SubSeq(mmap, 5, 8)) = 258
    /\ sh_reads = 0..3

NoUnderscore(s) == \A i \in 1..Len(s) : s[i] # "_"

\* C28: for a feedback f that is not Old and a prefix without underscore,
\* from_file_name of prefix + "_" + seed_post_fix(f) returns Old(f): the
\* same variant and the same uniqueness
C28_RoundTrip ==
    (Variant(nm_f) # "Old" /\ NoUnderscore(nm_prefix)) =>
        /\ nm_pc # "panic"
        /\ nm_pc = "parsed" =>
              /\ nm_parsed = Old(nm_f)
              /\ Variant(nm_parsed) = "Old"
              /\ Inner(nm_parsed).tag = nm_f.tag
              /\ Inner(nm_parsed).uniqueness = nm_f.uniqueness

\* a NewEdge of a uniqueness of four digits was read back from a name with
\* a prefix of two characters
C28_Witness ==
    /\ nm_pc = "parsed"
    /\ Len(nm_prefix) = 2
    /\ nm_f = NewEdge(4095)
    /\ nm_parsed = Old(NewEdge(4095))
    /\ Len(nm_name) = 12

\* the number of digests held for all functions together
DigestCount(c) == Sum([f \in DOMAIN c |-> Cardinality(c[f])], DOMAIN c)

\* C33: after any sequence of observations by the per-function path metric
\* total_cov is the sum over all functions of the sizes of their digest sets
C33_TotalCov == total_cov = DigestCount(coverage)

\* a trace was observed twice; one function holds two digests and another
\* function holds one
C33_Witness ==
    /\ pc = "done" /\ nobs = 2
    /\ \E f, g \in DOMAIN coverage :
          f # g /\ Cardinality(coverage[f]) >= 2 /\ Cardinality(coverage[g]) >= 1

\* C35: the reduction of a finite trace ends; it ends with the whole trace
\* consumed unless the lookup of a function entry failed; every step on a
\* non-empty cursor, an invocation of reduce_fun among them, advances the
\* cursor by one block, and the depth of the nested invocations never
\* exceeds the number of blocks consumed, hence the length of the trace
C35_Termination ==
    /\ <>(pc \in {"done", "panic"})
    /\ [](pc = "done" => path = <<>> /\ stack = <<>>)
    /\ [](Len(stack) <= Len(trace) - Len(path))
    /\ [][pc' = "panic" =>
            stack = <<>> /\ path # <<>> /\ Head(path) \notin DOMAIN first_to_lasts]_vars
    /\ [][(pc = "loop" /\ path # <<>>) => Len(path') = Len(path) - 1]_vars
    /\ [][(pc = "loop" /\ path = <<>> /\ stack # <<>>) =>
            Len(stack') = Len(stack) - 1]_vars

\* three invocations are nested at the end of a trace of three blocks
C35_Witness ==
    /\ pc = "loop"
    /\ Len(trace) = 3 /\ path = <<>>
    /\ Len(stack) = 3

\* the frame reduce_fun1 reaches when it is fed the blocks buf[i..] in a
\* function with the exits lasts, none of them a function entry: an exit
\* ends the reduction
RECURSIVE ReduceFrom(_, _, _, _)
ReduceFrom(buf, i, lasts, frame) ==
    IF i > Len(buf) THEN frame
    ELSE IF buf[i] \in lasts
    THEN [frame EXCEPT !.reduced_path = Append(@, buf[i])]
    ELSE ReduceFrom(buf, i + 1, lasts, IntraBlock(frame, buf[i], K))

\* the reduction of the call-free trace buf of one function
Reduced(buf, lasts) ==
    ReduceFrom(buf, 2, lasts, [reduced_path |-> <<buf[1]>>, loop_stack |-> <<>>])

\* no block of buf after the first is a function entry
CallFree(buf) == \A i \in 2..Len(buf) : buf[i] \notin DOMAIN first_to_lasts

\* C34: the reduced trace of a call-free trace of one function is a fixed
\* point of the reduction: at every step the reduced buffer and loop_stack
\* of the invocation are what the reducer reaches when it is fed the reduced
\* buffer, and the buffer that is hashed reduces to itself
C34_FixedPoint ==
    /\ \A i \in 1..Len(stack) :
          CallFree(stack[i].reduced_path) =>
              LET again == Reduced(stack[i].reduced_path, stack[i].lasts)
              IN  /\ again.reduced_path = stack[i].reduced_path
                  /\ again.loop_stack = stack[i].loop_stack
    /\ \A key \in recorded :
          CallFree(key[2]) =>
              Reduced(key[2], first_to_lasts[key[1]]).reduced_path = key[2]

\* a complete trace that iterates a loop more than K times was reduced to a
\* shorter buffer, which was hashed
C34_Witness ==
    /\ pc = "done"
    /\ CallFree(trace) /\ Len(trace) >= 6
    /\ \E key \in recorded :
          /\ Len(key[2]) < Len(trace)
          /\ key[2][1] = trace[1]
          /\ Last(key[2]) = Last(trace)
          /\ Last(trace) \in first_to_lasts[trace[1]]

\* C36: in one aggregator the block table embedded in the per-function
\* path metric equals the table of the block metric after any sequence of
\* observations, and the per-function path metric returns NewBlock for a
\* trace exactly when the block metric does
C36_EmbeddedBlocks ==
    /\ [](metrics["pfp"].blocks = metrics["block"])
    /\ [][Observed =>
            /\ Variant(cov'["pfp"]) = "NewBlock" <=> Variant(cov'["block"]) = "NewBlock"
            /\ Variant(cov'["block"]) = "NewBlock" => cov'["pfp"] = cov'["block"]]_vars

\* after two observations two blocks are counted, one of them more than
\* once, and the last trace brought a new block
C36_Witness ==
    /\ agg_nobs = 2
    /\ Cardinality(DOMAIN metrics["block"]) = 2
    /\ \E b \in DOMAIN metrics["block"] : metrics["block"][b] >= 2
    /\ Variant(cov["pfp"]) = "NewBlock"
    /\ metrics["pfp"].total_cov >= 1

\* C37: a NewBlock returned by the block metric carries the uniqueness 1,
\* the uniqueness of the block feedback of a non-empty trace is at least 1,
\* and two NewBlock feedbacks of the block metric compare as equal
C37_NewBlockIsOne ==
    [][Observed =>
        /\ Variant(cov'["block"]) = "NewBlock" => cov'["block"].uniqueness = 1
        /\ agg_trace' # <<>> => cov'["block"].uniqueness >= 1
        /\ ("block" \in DOMAIN cov /\ Variant(cov["block"]) = "NewBlock"
              /\ Variant(cov'["block"]) = "NewBlock") =>
              /\ partial_cmp(cov["block"], cov'["block"]) = "Equal"
              /\ partial_cmp(cov'["block"], cov["block"]) = "Equal"]_vars

\* two observations in a row returned NewBlock, the second for a trace that
\* visits the new block twice and so leaves its count at 2
C37_Witness ==
    /\ agg_nobs = 2
    /\ Variant(cov["block"]) = "NewBlock"
    /\ agg_trace = <<2, 2>>
    /\ metrics["block"] = (1 :> 1) @@ (2 :> 2)

\* the trace of the execution just made was empty
EmptyTraceNow == agg_trace' = <<>>

\* C40: an execution killed by signal 11, 6 or 7 whose trace is empty does
\* not abort the fuzzer: the loop goes on with the next test case (the next
\* seed while the seeds are loaded)
C40_EmptyTraceCrash ==
    [][(Executed /\ CrashedNow /\ EmptyTraceNow) =>
        fz_pc' = IF fz_pc = "run" THEN "pop" ELSE "seeds"]_vars

\* the file names of the test cases in the heap
QueuedNames == {tc.filename : tc \in queue}

\* save_to_queue has just written a file and pushed its test case
SavedNow == new_coverage_count' = new_coverage_count + 1

LookupFailed ==
    fz_pc = "panic" /\ agg_trace # <<>> /\ Head(agg_trace) \notin DOMAIN FuzzCFG

\* the run has gone as far as the bounds of the model let it go
BudgetSpent == level = MaxLevel \/ total_executions = MaxExecs

\* C39: with use_cov = {block} every save goes with a block not seen
\* before, so at most one test case is enqueued per unseen block; and when
\* every execution of the target returns the levels are drained and the
\* rescans and level increments go on (here: up to the bounds), unless a
\* file operation or a lookup of the per-function metric failed
C39_DrainProgress ==
    /\ [][(use_coverage = {"block"} /\ SavedNow) =>
            DOMAIN metrics'["block"] \ DOMAIN metrics["block"] # {}]_vars
    /\ [](use_coverage = {"block"} =>
            Cardinality(queue_dir) <= Cardinality(DOMAIN metrics["block"]))
    /\ <>(use_coverage = {"block"} =>
            (BudgetSpent \/ LookupFailed \/ fz_pc = "failed"))

\* without the abort on a crash with an empty trace the loop cannot stop
\* before the bounds
C39_OnlyAborts ==
    <>(BudgetSpent \/ fz_pc \in {"panic", "failed"})

(***************************************************************************)
(* Properties of the mutation                                              *)
(***************************************************************************)
\* out is inp without d consecutive bytes, for some d of 1..max
RemovesChunk(inp, out, max) ==
    \E d \in 1..max : \E k \in 0..(Len(inp) - d) :
        out = SubSeq(inp, 1, k) \o SubSeq(inp, k + d + 1, Len(inp))

\* the operation chosen by the value drawn
Op ==
    IF mu_strategy < 30 THEN "flip"
    ELSE IF mu_strategy < 50 THEN "overwrite"
    ELSE IF mu_strategy < 75 THEN "delete"
    ELSE "insert"

\* what every operation but the deletion does to the length, and the empty
\* input
LengthsButDelete ==
    LET len == Len(mu_input)
    IN  /\ len = 0 => mu_result = mu_input
        /\ (len >= 1 /\ Op \in {"flip", "overwrite"}) =>
              /\ Len(mu_result) = len
              /\ Cardinality({i \in 1..len : mu_result[i] # mu_input[i]}) <= 1
        /\ (len >= 1 /\ Op = "insert") =>
              \E c \in 1..Min(16, len) :
                  /\ Len(mu_result) = len + c
                  /\ \E k \in 0..len :
                        /\ SubSeq(mu_result, 1, k) = SubSeq(mu_input, 1, k)
                        /\ SubSeq(mu_result, k + c + 1, len + c)
                              = SubSeq(mu_input, k + 1, len)

\* C32: a mutation of an input of len >= 1 bytes returns len bytes (bit
\* flip, overwrite), len - d bytes with 1 <= d <= min(8, len) (delete) or
\* len + c bytes with 1 <= c <= min(16, len) (insert); a deletion removes d
\* consecutive bytes for some d of 1..min(8, len), whatever len >= 1 is; the
\* empty input is returned unchanged
C32_MutateLengths ==
    mu_pc = "done" =>
        /\ LengthsButDelete
        /\ (Len(mu_input) >= 1 /\ Op = "delete") =>
              RemovesChunk(mu_input, mu_result, Min(8, Len(mu_input)))

\* C32, amended: as above, but a deletion removes d consecutive bytes only
\* from an input of len >= 2 bytes; chosen for an input of one byte it
\* returns the input unchanged
C32_MutateLengthsFrom2 ==
    mu_pc = "done" =>
        /\ LengthsButDelete
        /\ (Len(mu_input) >= 2 /\ Op = "delete") =>
              RemovesChunk(mu_input, mu_result, Min(8, Len(mu_input)))
        /\ (Len(mu_input) = 1 /\ Op = "delete") => mu_result = mu_input

\* the deletion was chosen for an input of one byte, which came back as it
\* was
C32_Witness ==
    /\ mu_pc = "done" /\ Op = "delete"
    /\ Len(mu_input) = 1
    /\ mu_result = mu_input

(***************************************************************************)
(* Properties of the parallel instances                                    *)
(***************************************************************************)
\* the instance i has just read its trace
ParReadNow(i) == p_pc[i] = "exited" /\ p_pc'[i] # "exited"

\* C31: the trace an instance reads after its child exited is what its own
\* child wrote after its own zeroing: the block ids its child stored, or
\* nothing if its child stored nothing; no other instance and no target of
\* another instance has a part in it
C31_OwnTrace ==
    [][\A i \in Instances :
        ParReadNow(i) =>
            p_path'[i] = IF p_wrote[i].any THEN p_wrote[i].blocks
                         ELSE <<>>]_vars

====
